---- MODULE Spec2Model ----
(***************************************************************************)
(* A model of the cooperative-localization simulator: Point (point.py),    *)
(* NetworkEdge / NetworkNode / Network (network.py) and the round-based    *)
(* solvers built on them (algorithms/admm.py, algorithms/admmh.py,         *)
(* algorithms/mds.py).                                                     *)
(*                                                                         *)
(* Real numbers are fixed-point integers: the real r is the integer        *)
(* r * One.  A product of two reals is rescaled with FxMul, a quotient     *)
(* with FxDiv, both rounding toward zero, so that negation commutes with   *)
(* every operation as it does in IEEE arithmetic.                          *)
(***************************************************************************)
EXTENDS Integers, Sequences, FiniteSets, TLC

VARIABLES
    edge,       \* property-bag scenario: one NetworkEdge object
    written,    \* the names assigned on `edge` so far (constructor included)
    ret,        \* the record of the last call and what it returned or raised
    pt,         \* accessor scenario: the Point the accessor is called on
    other,      \* accessor scenario: the argument `o` of the call
    points,     \* the input list of Points handed to Network / solve
    args,       \* the run's options: visibility, sigma, iterations
    nodes,      \* Network.points: the list of NetworkNode objects
    pc,         \* the control location of the running constructor / solve
    cur,        \* the loop position inside the running operation
    rng,        \* the random module: the stream of normal samples still to come
    GENERATED_UIDS, \* utils.GENERATED_UIDS
    mstCalls,   \* the number of mst() calls made on the network
    log,        \* solve: the hooks called so far, as (hook, node, round)
    minimizer   \* scipy.optimize.minimize: what its coming calls return

edgeVars == <<edge, written>>
pointVars == <<pt, other>>
netVars == <<points, args, nodes, pc, cur, rng, GENERATED_UIDS, mstCalls, log, minimizer>>

vars == <<edge, written, ret, pt, other, points, args, nodes, pc, cur, rng,
          GENERATED_UIDS, mstCalls, log, minimizer>>

----------------------------------------------------------------------------
(* Bounds of the model.                                                    *)

\* property values a protocol stores are drawn from 0..MaxVal
MaxVal == 1
\* coordinates are drawn from {0, One, ..., MaxCoord * One}
MaxCoord == 2
\* points have 1..MaxDim coordinates
MaxDim == 2
\* a network has 1..MaxNodes nodes
MaxNodes == 3
\* the random module's stream repeats after StreamLen draws
StreamLen == 2
\* mst() is called at most MaxMst times on a network
MaxMst == 1

----------------------------------------------------------------------------
(* Fixed-point arithmetic.                                                 *)

\* the fixed-point resolution: One represents the real number 1.0
One == 10 * 100

Abs(a) == IF a < 0 THEN -a ELSE a

Sign(a) == IF a < 0 THEN -1 ELSE IF a > 0 THEN 1 ELSE 0

\* integer quotient rounded toward zero
TDiv(a, b) == Sign(a) * Sign(b) * (Abs(a) \div Abs(b))

FxMul(a, b) == TDiv(a * b, One)

FxDiv(a, b) == TDiv(a * One, b)

RECURSIVE ISqrtIn(_, _, _)
ISqrtIn(n, lo, hi) ==
    IF lo >= hi THEN lo
    ELSE LET mid == (lo + hi + 1) \div 2
         IN  IF mid * mid <= n THEN ISqrtIn(n, mid, hi)
                               ELSE ISqrtIn(n, lo, mid - 1)

\* math.sqrt of a fixed-point square: the argument is in units of One * One
\* (an unrescaled product), the result in units of One
Sqrt(n) == ISqrtIn(n, 0, IF n < 46340 THEN n ELSE 46340)

RECURSIVE SumSeq(_)
SumSeq(s) == IF s = <<>> THEN 0 ELSE Head(s) + SumSeq(Tail(s))

Min(a, b) == IF a < b THEN a ELSE b

\* zip(a, b): pairs up to the shorter length
Zip(a, b) == [k \in 1..Min(Len(a), Len(b)) |-> <<a[k], b[k]>>]

Ok(v) == [raised |-> FALSE, val |-> v]

Raise(e) == [raised |-> TRUE, val |-> e]

----------------------------------------------------------------------------
(* point.py: Point                                                         *)

Point(coords, typ) == [coords |-> coords, typ |-> typ, dim |-> Len(coords)]

\* mutant of Point_coords: the role check is missing
Point_coords_unguarded(self) == Ok(self.coords)

\* Point.coords (property): the coordinates of an anchor, an error otherwise
Point_coords(self) ==
    IF self.typ = "S" THEN Ok(self.coords)
    ELSE Raise("ValueError: Attempt to acess coords of agent")

\* Point.__iter__: iter(self.coords)
Point_iter(self) == Point_coords(self)

\* iter(o) for an argument that is a Point or a plain iterable of numbers
Iter(o) == IF o.kind = "point" THEN Point_iter(o.p) ELSE Ok(o.list)

\* Point.abssq: sum(x*x for x in self.coords)
Point_abssq(self) ==
    LET c == Point_coords(self)
    IN  IF c.raised THEN c
        ELSE Ok(SumSeq([k \in 1..Len(c.val) |-> c.val[k] * c.val[k]]))

\* Point.__abs__: sqrt(self.abssq())
Point_abs(self) ==
    LET a == Point_abssq(self)
    IN  IF a.raised THEN a ELSE Ok(Sqrt(a.val))

\* Point._distsq: reads _coords of both sides without the role check
Point__distsq(self, o) ==
    LET oc == IF o.kind = "point" THEN o.p.coords ELSE o.list
        z  == Zip(self.coords, oc)
    IN  Ok(SumSeq([k \in 1..Len(z) |-> (z[k][1] - z[k][2]) * (z[k][1] - z[k][2])]))

\* Point._dist: sqrt(self._distsq(o))
Point__dist(self, o) == Ok(Sqrt(Point__distsq(self, o).val))

\* Point.distsq: zip(self, o) iterates self, then o, through __iter__
Point_distsq(self, o) ==
    LET a == Point_iter(self)
        b == Iter(o)
    IN  IF a.raised THEN a
        ELSE IF b.raised THEN b
        ELSE LET z == Zip(a.val, b.val)
             IN  Ok(SumSeq([k \in 1..Len(z) |->
                               (z[k][1] - z[k][2]) * (z[k][1] - z[k][2])]))

\* Point.dist: sqrt(self.distsq(o))
Point_dist(self, o) ==
    LET d == Point_distsq(self, o)
    IN  IF d.raised THEN d ELSE Ok(Sqrt(d.val))

\* the standard-normal draws z the random module can produce: any real,
\* of which the model keeps a few
ZSamples == {-3 * One, One}

\* mutant of Gauss: the draw is not scaled by sigma
Gauss_unscaled(mu, sigma, z) == mu + z

\* random.gauss(mu, sigma): mu + z * sigma for the next normal draw z
Gauss(mu, sigma, z) == mu + FxMul(z, sigma)

\* Point.dist_noisy: self._dist(o) * abs(1 + random.gauss(0, sigma))
Point_dist_noisy(self, o, sigma, z) ==
    Ok(FxMul(Point__dist(self, o).val, Abs(One + Gauss(0, sigma, z))))

----------------------------------------------------------------------------
(* network.py: NetworkEdge                                                 *)

EmptyBag == [n \in {} |-> 0]

\* the names that start with an underscore (name[0] == "_")
UnderscoreNames == {"_source", "_dest", "_tag"}

\* attributes found on the class NetworkEdge by normal lookup
ClassMembers == {"send", "__init__", "__getattr__", "__setattr__", "__str__", "__lt__"}

\* NetworkEdge.__init__(source, dest): dest is given with its typ
NetworkEdge(source, dest, desttyp) ==
    [attrs |-> [_source |-> source, _dest |-> dest],
     props |-> IF desttyp = "S" THEN [typ |-> desttyp, pt |-> dest]
                                ELSE [typ |-> desttyp]]

\* NetworkEdge.__setattr__(name, value)
NetworkEdge_setattr(e, name, value) ==
    IF name \in UnderscoreNames
        THEN [e EXCEPT !.attrs = (name :> value) @@ e.attrs]
        ELSE [e EXCEPT !.props = (name :> value) @@ e.props]

\* the read edge.<name>: Python looks in the instance dictionary (props,
\* _source, _dest and every underscore name assigned), then in the class,
\* and calls NetworkEdge.__getattr__ only when both fail
NetworkEdge_getattr(e, name) ==
    IF name = "props" THEN [kind |-> "bag", val |-> e.props]
    ELSE IF name \in DOMAIN e.attrs THEN [kind |-> "value", val |-> e.attrs[name]]
    ELSE IF name \in ClassMembers THEN [kind |-> "method", val |-> name]
    ELSE IF name \in DOMAIN e.props THEN [kind |-> "value", val |-> e.props[name]]
    ELSE [kind |-> "raise", val |-> "ValueError"]


----------------------------------------------------------------------------
(* Python dict: insertion-ordered; assigning an existing key keeps its     *)
(* place.                                                                  *)

EmptyDict == [keys |-> <<>>, val |-> EmptyBag]

DictSet(d, k, v) ==
    [keys |-> IF k \in DOMAIN d.val THEN d.keys ELSE Append(d.keys, k),
     val  |-> (k :> v) @@ d.val]

\* d.values(), in insertion order
DictValues(d) == [n \in 1..Len(d.keys) |-> d.val[d.keys[n]]]

----------------------------------------------------------------------------
(* utils.py: generate_uid                                                  *)

\* the strings gen_string can produce (52^16 of them in the code)
UidPool == {10 + k : k \in 1..(MaxNodes + 1)}

\* mutant of generate_uid: the string drawn is returned without the test
\* against GENERATED_UIDS
generate_uid_untested(generated) == UidPool

\* generate_uid(): the values it can return, given GENERATED_UIDS: the loop
\* draws again while the string drawn is in the set
generate_uid(generated) == UidPool \ generated

----------------------------------------------------------------------------
(* network.py: NetworkNode                                                 *)

\* NetworkNode.__init__(point), with the uid generate_uid() returned; a
\* node is referred to by its index in Network.points (its identity);
\* inst holds the attributes a solver's subclass adds
NetworkNode(point, uid) ==
    [coords |-> point.coords, typ |-> point.typ, dim |-> Len(point.coords),
     edges |-> EmptyDict, order |-> <<>>, message_queue |-> <<>>,
     uid |-> uid, inst |-> EmptyBag]

\* a node passed as the argument `o` of a Point method
AsArg(node) == [kind |-> "point", p |-> node]

\* NetworkNode._receive(message, sender)
NetworkNode_receive(self, message, sender) ==
    [self EXCEPT !.message_queue = Append(@, <<message, sender>>)]

\* mutant of NetworkEdge_send: the message is also written to the
\* destination's edge at once
NetworkEdge_send_live(ns, e, msg) ==
    [ns EXCEPT ![e.attrs._dest] =
        [NetworkNode_receive(@, msg, ns[e.attrs._source].uid) EXCEPT
            !.edges.val[ns[e.attrs._source].uid] =
                NetworkEdge_setattr(@, "received", msg)]]

\* mutant of NetworkEdge_send: the message is tagged with the uid of the
\* destination
NetworkEdge_send_own(ns, e, msg) ==
    [ns EXCEPT ![e.attrs._dest] =
        NetworkNode_receive(@, msg, ns[e.attrs._dest].uid)]

\* NetworkEdge.send(msg): self._dest._receive(msg, self._source._uid)
NetworkEdge_send(ns, e, msg) ==
    [ns EXCEPT ![e.attrs._dest] =
        NetworkNode_receive(@, msg, ns[e.attrs._source].uid)]

\* NetworkNode.edges_ordered(): self.edges[uid] for uid in self._order
NetworkNode_edges_ordered(self) ==
    [n \in 1..Len(self.order) |-> self.edges.val[self.order[n]]]

----------------------------------------------------------------------------
(* network.py: Network                                                     *)

RECURSIVE AddEdges(_, _, _, _)
\* the inner loop of _add_neighbours for pt1 = ns[i] over the visible js
AddEdges(ns, i, js, d) ==
    IF js = <<>> THEN d
    ELSE LET j == Head(js)
         IN  AddEdges(ns, i, Tail(js),
                      DictSet(d, ns[j].uid, NetworkEdge(i, j, ns[j].typ)))

\* mutant of Visible: a node is compared with itself too
Visible_self(ns, i, j, visibility) ==
    Point__distsq(ns[i], AsArg(ns[j])).val < visibility * visibility

\* the visibility test of _add_neighbours
Visible(ns, i, j, visibility) ==
    /\ i # j
    /\ Point__distsq(ns[i], AsArg(ns[j])).val < visibility * visibility

\* Network._add_neighbours(visibility)
Network_add_neighbours(ns, visibility) ==
    [i \in 1..Len(ns) |->
        LET js == SelectSeq([j \in 1..Len(ns) |-> j],
                            LAMBDA j : Visible(ns, i, j, visibility))
            d  == AddEdges(ns, i, js, ns[i].edges)
        IN  [ns[i] EXCEPT !.edges = d, !.order = d.keys]]

\* mutant of Network_measure_one: the value is not copied to the reverse edge
Network_measure_one_unsynced(ns, i, k, sigma, z) ==
    LET pt1 == ns[i]
        key == pt1.edges.keys[k]
    IN  [ns EXCEPT ![i].edges.val[key] =
            NetworkEdge_setattr(@, "dist",
                Point_dist_noisy(pt1, AsArg(ns[pt1.edges.val[key].attrs._dest]),
                                 sigma, z).val)]

\* one pass of the loop body of _measure_distances: pt1 = ns[i], edge the
\* k-th of pt1.edges.values(), z the normal draw dist_noisy consumes
Network_measure_one(ns, i, k, sigma, z) ==
    LET pt1  == ns[i]
        key  == pt1.edges.keys[k]
        e1   == NetworkEdge_setattr(pt1.edges.val[key], "dist",
                    Point_dist_noisy(pt1, AsArg(ns[pt1.edges.val[key].attrs._dest]),
                                     sigma, z).val)
        ns1  == [ns EXCEPT ![i].edges.val[key] = e1]
        j    == e1.attrs._dest
    IN  [ns1 EXCEPT ![j].edges.val[pt1.uid] =
            NetworkEdge_setattr(@, "dist", NetworkEdge_getattr(e1, "dist").val)]

RECURSIVE NormCursor(_, _, _)
\* the next (pt1, edge) position of the nested loops at or after (i, k)
NormCursor(ns, i, k) ==
    IF i > Len(ns) THEN [i |-> Len(ns) + 1, k |-> 1]
    ELSE IF k > Len(ns[i].edges.keys) THEN NormCursor(ns, i + 1, 1)
    ELSE [i |-> i, k |-> k]

RECURSIVE Dfs(_, _, _)
RECURSIVE DfsEdges(_, _, _)
\* the loop of dfs over pt.edges.values()
DfsEdges(ns, es, seen) ==
    IF es = <<>> THEN seen
    ELSE LET d == Head(es).attrs._dest
         IN  DfsEdges(ns, Tail(es), IF d \in seen THEN seen ELSE Dfs(ns, d, seen))

\* dfs(pt) of _check_connectivity; returns the set seen
Dfs(ns, i, seen) == DfsEdges(ns, DictValues(ns[i].edges), seen \cup {i})

\* mutant of Network_check_connectivity: dfs does not recurse
Network_check_connectivity_shallow(ns) ==
    \A i \in 1..Len(ns) :
        i \in {1} \cup {ns[1].edges.val[u].attrs._dest : u \in DOMAIN ns[1].edges.val}

\* Network._check_connectivity()
Network_check_connectivity(ns) ==
    LET seen == Dfs(ns, 1, {})
    IN  \A i \in 1..Len(ns) : i \in seen

RECURSIVE SeqLess(_, _)
\* lexicographic order of two number sequences
SeqLess(a, b) ==
    IF b = <<>> THEN FALSE
    ELSE IF a = <<>> THEN TRUE
    ELSE IF Head(a) # Head(b) THEN Head(a) < Head(b)
    ELSE SeqLess(Tail(a), Tail(b))

\* NetworkEdge.__lt__: str(self) < str(o), the strings being
\* "NewtorkEdge(NP(c, ...), NP(c, ...))"; for the one-digit non-negative
\* coordinates of the model the order of the strings is the lexicographic
\* order of the coordinates of source, then dest
NetworkEdge_lt(ns, e, o) ==
    SeqLess(ns[e.attrs._source].coords \o ns[e.attrs._dest].coords,
            ns[o.attrs._source].coords \o ns[o.attrs._dest].coords)

\* the default edge_weight of mst: lambda edge: edge.dist
EdgeWeight(e) == NetworkEdge_getattr(e, "dist").val

\* the directed edge i -> j of the network
EdgeAt(ns, h) == ns[h[1]].edges.val[ns[h[2]].uid]

\* (weight, edge) tuple order used by heapq
HeapLess(ns, a, b) ==
    \/ EdgeWeight(EdgeAt(ns, a)) < EdgeWeight(EdgeAt(ns, b))
    \/ /\ EdgeWeight(EdgeAt(ns, a)) = EdgeWeight(EdgeAt(ns, b))
       /\ NetworkEdge_lt(ns, EdgeAt(ns, a), EdgeAt(ns, b))

\* mutant of HeapMin: heappop returns a greatest entry
HeapMin_greatest(ns, heap) == {a \in heap : \A b \in heap : ~HeapLess(ns, a, b)}

\* the entries heappop may return: a least one; entries equal in weight and
\* in string are returned in an order the heap's layout decides
HeapMin(ns, heap) == {a \in heap : \A b \in heap : ~HeapLess(ns, b, a)}

\* the edges of node j pushed after j is taken
Pushed(ns, j, taken) ==
    {<<j, e.attrs._dest>> : e \in {ns[j].edges.val[u] : u \in DOMAIN ns[j].edges.val}}
        \ {h \in (1..Len(ns)) \X (1..Len(ns)) : h[2] \in taken}

RECURSIVE Prim_forest(_, _, _, _)
\* mutant of Prim: an empty heap ends the loop with the edges taken so far
Prim_forest(ns, heap, taken, taken_edges) ==
    IF Cardinality(taken) >= Len(ns) THEN {Ok(taken_edges)}
    ELSE IF heap = {} THEN {Ok(taken_edges)}
    ELSE UNION {
        LET j == h[2]
        IN  IF j \in taken
                THEN Prim_forest(ns, heap \ {h}, taken, taken_edges)
                ELSE Prim_forest(ns, (heap \ {h}) \cup Pushed(ns, j, taken \cup {j}),
                                 taken \cup {j}, Append(taken_edges, h))
        : h \in HeapMin(ns, heap)}

RECURSIVE Prim(_, _, _, _)
\* the while loop of mst: the outcomes it can end with, taken_edges or the
\* IndexError of heappop on an empty heap
Prim(ns, heap, taken, taken_edges) ==
    IF Cardinality(taken) >= Len(ns) THEN {Ok(taken_edges)}
    ELSE IF heap = {} THEN {Raise("IndexError")}
    ELSE UNION {
        LET j == h[2]
        IN  IF j \in taken
                THEN Prim(ns, heap \ {h}, taken, taken_edges)
                ELSE Prim(ns, (heap \ {h}) \cup Pushed(ns, j, taken \cup {j}),
                          taken \cup {j}, Append(taken_edges, h))
        : h \in HeapMin(ns, heap)}

\* the outcomes of the first half of mst (up to the while loop's end)
Network_mst_taken(ns) == Prim(ns, Pushed(ns, 1, {}), {1}, <<>>)

RECURSIVE Rebuild(_, _)
\* the loop of mst over taken_edges that creates the two fresh edges
Rebuild(ns, taken_edges) ==
    IF taken_edges = <<>> THEN ns
    ELSE LET s == Head(taken_edges)[1]
             d == Head(taken_edges)[2]
             ns1 == [ns EXCEPT ![s].edges =
                        DictSet(@, ns[d].uid, NetworkEdge(s, d, ns[d].typ))]
             ns2 == [ns1 EXCEPT ![d].edges =
                        DictSet(@, ns[s].uid, NetworkEdge(d, s, ns[s].typ))]
         IN  Rebuild(ns2, Tail(taken_edges))

\* mutant of Network_mst_rebuild: the edge maps are not cleared
Network_mst_rebuild_keep(ns, taken_edges) ==
    LET rebuilt == Rebuild(ns, taken_edges)
    IN  [i \in 1..Len(ns) |-> [rebuilt[i] EXCEPT !.order = rebuilt[i].edges.keys]]

\* mutant of Network_mst_rebuild: _order is left as it was
Network_mst_rebuild_stale(ns, taken_edges) ==
    LET cleared == [i \in 1..Len(ns) |-> [ns[i] EXCEPT !.edges = EmptyDict]]
    IN  Rebuild(cleared, taken_edges)

\* the second half of mst before the measurement: clear every edge map,
\* rebuild the taken edges, recompute every _order
Network_mst_rebuild(ns, taken_edges) ==
    LET cleared == [i \in 1..Len(ns) |-> [ns[i] EXCEPT !.edges = EmptyDict]]
        rebuilt == Rebuild(cleared, taken_edges)
    IN  [i \in 1..Len(ns) |-> [rebuilt[i] EXCEPT !.order = rebuilt[i].edges.keys]]

----------------------------------------------------------------------------
(* Values the scenarios' variables keep while another scenario runs.       *)

NoCall == [op |-> "none"]

EdgeIdle == edge = 0 /\ written = {}

PointIdle == pt = 0 /\ other = 0

NetIdle ==
    /\ points = <<>> /\ args = 0 /\ nodes = <<>> /\ pc = "idle"
    /\ cur = 0 /\ rng = 0 /\ GENERATED_UIDS = {} /\ mstCalls = 0
    /\ log = <<>>
    /\ minimizer = 0

----------------------------------------------------------------------------
(* Scenario 1: a protocol reads and writes properties of one edge.         *)

\* names a protocol may use
PropNames == {"dist", "pt", "props", "send", "_source", "_tag"}

Values == 0..MaxVal

InitEdge ==
    /\ \E desttyp \in {"S", "A"} :
          /\ edge = NetworkEdge(1, 2, desttyp)
          /\ written = {"_source", "_dest", "props"} \cup DOMAIN edge.props
    /\ ret = NoCall
    /\ PointIdle
    /\ NetIdle

\* edge.<name> = value
SetProperty ==
    \E name \in PropNames, value \in Values :
        /\ edge' = NetworkEdge_setattr(edge, name, value)
        /\ written' = written \cup {name}
        /\ ret' = [op |-> "set", name |-> name, arg |-> value]
        /\ UNCHANGED <<pointVars, netVars>>

\* edge.<name>
GetProperty ==
    \E name \in PropNames :
        /\ ret' = [op |-> "get", name |-> name, wasSet |-> name \in written,
                   res |-> NetworkEdge_getattr(edge, name)]
        /\ UNCHANGED <<edgeVars, pointVars, netVars>>

\* edge.<name> = value; edge.<name>
SetThenGet ==
    \E name \in PropNames, value \in Values :
        /\ edge' = NetworkEdge_setattr(edge, name, value)
        /\ written' = written \cup {name}
        /\ ret' = [op |-> "setget", name |-> name, arg |-> value,
                   res |-> NetworkEdge_getattr(edge', name)]
        /\ UNCHANGED <<pointVars, netVars>>

NextEdge == SetProperty \/ GetProperty \/ SetThenGet

SpecEdge == InitEdge /\ [][NextEdge]_vars

----------------------------------------------------------------------------
(* Scenario 2: algorithm code calls the accessors of a Point.              *)

Coord == {k * One : k \in 0..MaxCoord}

RECURSIVE SeqsOfLen(_, _)
SeqsOfLen(S, n) ==
    IF n = 0 THEN {<<>>}
    ELSE {Append(s, x) : s \in SeqsOfLen(S, n - 1), x \in S}

CoordSeqs == UNION {SeqsOfLen(Coord, d) : d \in 1..MaxDim}

Points == {Point(c, t) : c \in CoordSeqs, t \in {"S", "A"}}

\* an argument `o`: another Point, or a plain iterable of numbers
Arguments == {[kind |-> "point", p |-> p] : p \in Points}
                \cup {[kind |-> "list", list |-> c] : c \in CoordSeqs}

\* the values of sigma the runs use: no noise, and a standard deviation 0.5
Sigmas == {0, One \div 2}

InitPoint ==
    /\ pt \in Points
    /\ other \in Arguments
    /\ ret = NoCall
    /\ EdgeIdle
    /\ NetIdle

Accessors == {"coords", "iter", "abssq", "abs", "distsq", "dist"}

Privileged == {"_distsq", "_dist", "dist_noisy"}

\* a public accessor is called on pt (with other as its argument)
CallAccessor ==
    \E acc \in Accessors :
        /\ ret' = [op |-> acc,
                   res |-> CASE acc = "coords" -> Point_coords(pt)
                             [] acc = "iter"   -> Point_iter(pt)
                             [] acc = "abssq"  -> Point_abssq(pt)
                             [] acc = "abs"    -> Point_abs(pt)
                             [] acc = "distsq" -> Point_distsq(pt, other)
                             [] acc = "dist"   -> Point_dist(pt, other)]
        /\ UNCHANGED <<edgeVars, pointVars, netVars>>

\* a measurement routine is called on pt; sigma and the normal draw are inputs
CallPrivileged ==
    \E acc \in Privileged, sigma \in Sigmas, z \in ZSamples :
        /\ ret' = [op |-> acc, sigma |-> sigma, z |-> z,
                   res |-> CASE acc = "_distsq"    -> Point__distsq(pt, other)
                             [] acc = "_dist"      -> Point__dist(pt, other)
                             [] acc = "dist_noisy" ->
                                    Point_dist_noisy(pt, other, sigma, z)]
        /\ UNCHANGED <<edgeVars, pointVars, netVars>>

NextPoint == CallAccessor \/ CallPrivileged

SpecPoint == InitPoint /\ [][NextPoint]_vars

----------------------------------------------------------------------------
(* Scenario 3: a Network is constructed from a list of points, and mst()   *)
(* is called on it.                                                        *)

\* input lists: n points on a line, the first a of them anchors
NetInputs ==
    {[i \in 1..n |-> Point(<<c[i]>>, IF i <= a THEN "S" ELSE "A")] :
        n \in 1..MaxNodes, a \in 0..MaxNodes, c \in [1..MaxNodes -> Coord]}

\* the visibility radii tried: 1.5, and one that exceeds every distance
Visibilities == {One + One \div 2, (MaxCoord + 1) * One}

\* the random module at the start of a run: without noise one stream of
\* non-zero draws, with noise any sequence of StreamLen draws, repeated
NoiseEnvs ==
    {[sigma |-> 0, stream |-> [k \in 1..StreamLen |-> IF k % 2 = 1 THEN One ELSE -3 * One]]}
        \cup {[sigma |-> One \div 2, stream |-> s] : s \in SeqsOfLen(ZSamples, StreamLen)}

\* the next normal draw, and the random module after it
NextZ(r) == r.stream[r.pos]

Advance(r) == [r EXCEPT !.pos = (r.pos % Len(r.stream)) + 1]

\* the uids n calls of generate_uid can return: any n fresh distinct
\* values, of which the model keeps two assignments
UidChoices(generated, n) ==
    {us \in {[i \in 1..n |-> 10 + i], [i \in 1..n |-> 10 + n + 1 - i]} :
        \A i \in 1..n : us[i] \in generate_uid(generated)}

InitNet ==
    /\ points \in NetInputs
    /\ \E v \in Visibilities, env \in NoiseEnvs :
          /\ args = [visibility |-> v, sigma |-> env.sigma, iterations |-> 0]
          /\ rng = [stream |-> env.stream, pos |-> 1]
    /\ nodes = <<>>
    /\ pc = "start"
    /\ cur = 0
    /\ GENERATED_UIDS = {}
    /\ mstCalls = 0
    /\ log = <<>>
    /\ minimizer = 0
    /\ ret = NoCall
    /\ EdgeIdle
    /\ PointIdle

\* where the constructor / mst goes on once the measuring loop is at c
AfterMeasure(ns, c, at) ==
    IF c.i <= Len(ns) THEN at
    ELSE IF at = "measure" THEN "check" ELSE "mst_done"

\* Network.__init__ up to the call of _measure_distances: the nodes are
\* created (each draws its uid) and _add_neighbours runs
Network_init ==
    /\ pc = "start"
    /\ \E us \in UidChoices(GENERATED_UIDS, Len(points)) :
          LET created == [i \in 1..Len(points) |-> NetworkNode(points[i], us[i])]
              ns == Network_add_neighbours(created, args.visibility)
              c  == NormCursor(ns, 1, 1)
          IN  /\ nodes' = ns
              /\ GENERATED_UIDS' = GENERATED_UIDS \cup {us[i] : i \in 1..Len(points)}
              /\ cur' = c
              /\ pc' = AfterMeasure(ns, c, "measure")
    /\ UNCHANGED <<points, args, rng, mstCalls, log, minimizer, ret, edgeVars,
                   pointVars>>

\* one pass of the loop body of _measure_distances
MeasureStep ==
    /\ pc \in {"measure", "mst_measure"}
    /\ cur.i <= Len(nodes)
    /\ LET ns == Network_measure_one(nodes, cur.i, cur.k, args.sigma, NextZ(rng))
           c  == NormCursor(ns, cur.i, cur.k + 1)
       IN  /\ nodes' = ns
           /\ cur' = c
           /\ pc' = AfterMeasure(ns, c, pc)
    /\ rng' = Advance(rng)
    /\ UNCHANGED <<points, args, GENERATED_UIDS, mstCalls, log, minimizer, ret,
                   edgeVars, pointVars>>

\* the end of Network.__init__ with check_disconnect=True
CheckConnectivity ==
    /\ pc = "check"
    /\ pc' = IF Network_check_connectivity(nodes) THEN "built" ELSE "raised"
    /\ ret' = [op |-> "Network", check_disconnect |-> TRUE,
               raised |-> ~Network_check_connectivity(nodes)]
    /\ UNCHANGED <<points, args, nodes, cur, rng, GENERATED_UIDS, mstCalls, log,
                   minimizer, edgeVars, pointVars>>

\* the end of Network.__init__ with check_disconnect=False
SkipCheck ==
    /\ pc = "check"
    /\ pc' = "built"
    /\ ret' = [op |-> "Network", check_disconnect |-> FALSE, raised |-> FALSE]
    /\ UNCHANGED <<points, args, nodes, cur, rng, GENERATED_UIDS, mstCalls, log,
                   minimizer, edgeVars, pointVars>>

\* network.mst() up to its call of _measure_distances
Mst ==
    /\ pc \in {"built", "mst_done"}
    /\ mstCalls < MaxMst
    /\ mstCalls' = mstCalls + 1
    /\ \E r \in Network_mst_taken(nodes) :
          IF r.raised
          THEN /\ pc' = "mst_raised"
               /\ ret' = [op |-> "mst", raised |-> TRUE, before |-> nodes]
               /\ UNCHANGED <<nodes, cur>>
          ELSE LET ns == Network_mst_rebuild(nodes, r.val)
                   c  == NormCursor(ns, 1, 1)
               IN  /\ nodes' = ns
                   /\ cur' = c
                   /\ pc' = AfterMeasure(ns, c, "mst_measure")
                   /\ ret' = [op |-> "mst", raised |-> FALSE, before |-> nodes,
                              taken_edges |-> r.val]
    /\ UNCHANGED <<points, args, rng, GENERATED_UIDS, log, minimizer, edgeVars,
                   pointVars>>

NextNet == Network_init \/ MeasureStep \/ CheckConnectivity \/ SkipCheck \/ Mst

SpecNet == InitNet /\ [][NextNet]_vars

----------------------------------------------------------------------------
(* numpy: a vector is the sequence of its entries; a matrix object has an  *)
(* identity (id: the owner, the edge, the statement and the round that     *)
(* allocated it) and a value v.  Two references to one object carry the    *)
(* same id.                                                                *)

Mat(site, v) == [id |-> site, v |-> v]

Zeros(dim) == [k \in 1..dim |-> 0]

VAdd(a, b) == [k \in DOMAIN a |-> a[k] + b[k]]

VSub(a, b) == [k \in DOMAIN a |-> a[k] - b[k]]

\* scalar * vector
VScale(s, a) == [k \in DOMAIN a |-> FxMul(s, a[k])]

\* vector / scalar
VDiv(a, s) == [k \in DOMAIN a |-> FxDiv(a[k], s)]

\* np.linalg.norm
Norm(a) == Sqrt(SumSeq([k \in DOMAIN a |-> a[k] * a[k]]))

Max(a, b) == IF a > b THEN a ELSE b

RECURSIVE MaxSeq(_)
\* max of a non-empty sequence of numbers
MaxSeq(s) == IF Len(s) = 1 THEN s[1] ELSE Max(Head(s), MaxSeq(Tail(s)))

\* np.max(np.abs(a))
MaxAbs(a) == MaxSeq([k \in DOMAIN a |-> Abs(a[k])])

\* np.minimum(hi, np.maximum(lo, a))
Clamp(lo, hi, a) == [k \in DOMAIN a |-> Min(hi, Max(lo, a[k]))]

RECURSIVE VSum(_, _)
\* sum(...) of a sequence of vectors of dimension dim
VSum(vs, dim) == IF vs = <<>> THEN Zeros(dim) ELSE VAdd(Head(vs), VSum(Tail(vs), dim))

\* a property the code reads is missing on one of the edges
Missing(es, names) ==
    \E n \in 1..Len(es), name \in names :
        NetworkEdge_getattr(es[n], name).kind = "raise"

RECURSIVE SendAll(_, _)
\* edge.send(msg) for each (edge, msg) of a sequence, in order
SendAll(ns, sends) ==
    IF sends = <<>> THEN ns
    ELSE SendAll(NetworkEdge_send(ns, Head(sends)[1], Head(sends)[2]), Tail(sends))

\* NetworkNode.broadcast(msg)
NetworkNode_broadcast(ns, i, msg) ==
    SendAll(ns, [n \in 1..Len(ns[i].edges.keys) |->
                    <<DictValues(ns[i].edges)[n], msg>>])

----------------------------------------------------------------------------
(* algorithms/admmh.py: HybridNode                                         *)

LAMMAX == 1000 * One

\* a penalty parameter c is kept in units of 1/(One * One), so that its
\* growth by DELTA_C is not rounded away; Penalty(c) is c in units of 1/One,
\* as the arithmetic on vectors takes it
EPS_C == 5000
ZETA_C == 50000

Penalty(c) == c \div One

THETA_C == 980
DELTA_C == 1010
TAU_C == 3

\* HybridNode.__init__(point)
HybridNode(point, uid) ==
    LET self == NetworkNode(point, uid)
    IN  [self EXCEPT !.inst =
            [switched |-> FALSE,
             x |-> Mat(<<uid, 0, "x", 0>>,
                       IF self.typ = "A" THEN Zeros(self.dim)
                                         ELSE Point_coords(self).val),
             c |-> EPS_C,
             prev_primal_gap |-> 0]]

\* HybridNode.postinit()
HybridNode_postinit(ns, i, t) ==
    LET self == ns[i]
        post(u, e) ==
            LET x == IF NetworkEdge_getattr(e, "typ").val = "S"
                     THEN Point_coords(ns[NetworkEdge_getattr(e, "pt").val]).val
                     ELSE Zeros(self.dim)
                e1 == NetworkEdge_setattr(e, "x", Mat(<<self.uid, u, "x", t>>, x))
                e2 == NetworkEdge_setattr(e1, "lam1",
                          Mat(<<self.uid, u, "lam1", t>>, Zeros(self.dim)))
                e3 == NetworkEdge_setattr(e2, "lam2",
                          Mat(<<self.uid, u, "lam2", t>>, Zeros(self.dim)))
            IN  NetworkEdge_setattr(e3, "c", EPS_C)
    IN  Ok([ns EXCEPT ![i].edges.val =
               [u \in DOMAIN self.edges.val |-> post(u, self.edges.val[u])]])

\* mutant of HybridNode_handle: a penalty-parameter message is not stored
HybridNode_handle_drop_c(self, msg, sender) ==
    LET num == msg[1]
        name == IF num = 1 THEN "m1r" ELSE "m2r"
    IN  IF sender \notin DOMAIN self.edges.val THEN Raise("KeyError")
        ELSE IF num \notin {1, 2} THEN Ok(self)
        ELSE Ok([self EXCEPT !.edges.val[sender] =
                    NetworkEdge_setattr(@, name, msg[2])])

\* HybridNode.handle(msg, sender)
HybridNode_handle(self, msg, sender) ==
    LET num == msg[1]
        name == IF num = 1 THEN "m1r" ELSE IF num = 2 THEN "m2r" ELSE "c"
    IN  IF sender \notin DOMAIN self.edges.val THEN Raise("KeyError")
        ELSE Ok([self EXCEPT !.edges.val[sender] =
                    NetworkEdge_setattr(@, name, msg[2])])

\* HybridNode.build_messages()
HybridNode_build_messages(ns, i, t) ==
    LET self == ns[i]
        build(u, e) ==
            LET m1 == Mat(<<self.uid, u, "m1", t>>,
                          VAdd(VSub(self.inst.x.v, e.props.x.v),
                               VDiv(e.props.lam1.v, Penalty(self.inst.c))))
                m2 == Mat(<<self.uid, u, "m2", t>>,
                          VAdd(VAdd(self.inst.x.v, e.props.x.v),
                               VDiv(e.props.lam2.v, Penalty(self.inst.c))))
            IN  NetworkEdge_setattr(NetworkEdge_setattr(e, "m1s", m1), "m2s", m2)
        ns1 == [ns EXCEPT ![i].edges.val =
                   [u \in DOMAIN self.edges.val |-> build(u, self.edges.val[u])]]
        es  == DictValues(ns1[i].edges)
    IN  IF Missing(DictValues(self.edges), {"x", "lam1", "lam2"})
        THEN Raise("ValueError")
        ELSE Ok(SendAll(ns1, [n \in 1..(2 * Len(es)) |->
                   LET e == es[(n + 1) \div 2]
                   IN  IF n % 2 = 1 THEN <<e, <<1, e.props.m1s>>>>
                                    ELSE <<e, <<2, e.props.m2s>>>>]))

\* scipy.optimize.minimize(...).x started at x0: some vector; the model
\* keeps the start point moved by d in every coordinate
Minimize(x0, d) == [k \in DOMAIN x0 |-> x0[k] + d]

\* the moves d the model keeps: 0.004 and 1
MinimizerMoves == {4, One}

\* HybridNode.iteration_begin(), d the move of the local minimizer
HybridNode_iteration_begin(ns, i, t, d) ==
    LET self == ns[i]
        es   == DictValues(self.edges)
        c    == Penalty(self.inst.c)
        y    == VScale(FxDiv(One \div 2, Len(es) * One),
                       VSum([n \in 1..Len(es) |->
                                VSub(VAdd(es[n].props.z1.v, es[n].props.z2.v),
                                     VDiv(VAdd(es[n].props.lam1.v, es[n].props.lam2.v), c))],
                            self.dim))
        self1 == IF self.typ = "A"
                 THEN [self EXCEPT !.inst =
                          ("y" :> Mat(<<self.uid, 0, "y", t>>, y)) @@ @]
                 ELSE self
        begin(u, e) ==
            LET ey   == Mat(<<self.uid, u, "y", t>>,
                            VScale(One \div 2,
                                   VSub(VSub(e.props.z2.v, e.props.z1.v),
                                        VDiv(VSub(e.props.lam2.v, e.props.lam1.v), c))))
                arg  == IF self.typ = "S" THEN VSub(ey.v, self.inst.x.v)
                                          ELSE VSub(self.inst.x.v, ey.v)
                argn == Norm(arg)
                dist == NetworkEdge_getattr(e, "dist").val
                ex   == IF argn > 0 /\ (self.inst.switched \/ dist < argn)
                        THEN Mat(<<self.uid, u, "x", t>>,
                                 IF self.typ = "S"
                                 THEN VAdd(self.inst.x.v,
                                           VDiv(VDiv(VScale(dist + FxMul(2 * c, argn), arg),
                                                     One + 2 * c), argn))
                                 ELSE VAdd(ey.v,
                                           VDiv(VDiv(VScale(argn - dist, arg), argn),
                                                One + 2 * c)))
                        ELSE ey
            IN  NetworkEdge_setattr(NetworkEdge_setattr(e, "y", ey), "x", ex)
        self2 == [self1 EXCEPT !.edges.val =
                     [u \in DOMAIN self.edges.val |-> begin(u, self.edges.val[u])]]
        self3 == IF self.typ = "S" THEN self2
                 ELSE [self2 EXCEPT !.inst.x =
                          Mat(<<self.uid, 0, "x", t>>, Minimize(self.inst.x.v, d))]
    IN  IF self.typ = "A" /\ Len(es) = 0 THEN Raise("ZeroDivisionError")
        ELSE IF Missing(es, {"z1", "z2", "lam1", "lam2", "dist"}) THEN Raise("ValueError")
        ELSE HybridNode_build_messages([ns EXCEPT ![i] = self3], i, t)

\* mutant of HybridNode_adapt: a switched node whose gap stalls falls back
HybridNode_adapt_fallback(switched, c, prev_primal_gap, primal_gap, cmax) ==
    IF switched
    THEN IF primal_gap < FxMul(prev_primal_gap, THETA_C)
         THEN [switched |-> TRUE, c |-> cmax, broadcast |-> TRUE]
         ELSE [switched |-> FALSE, c |-> EPS_C, broadcast |-> TRUE]
    ELSE IF (0 < primal_gap /\ primal_gap < TAU_C) \/ cmax > EPS_C
    THEN [switched |-> TRUE, c |-> ZETA_C, broadcast |-> TRUE]
    ELSE [switched |-> FALSE, c |-> c, broadcast |-> FALSE]

\* mutant of HybridNode_adapt: a gap of zero also switches
HybridNode_adapt_nonstrict(switched, c, prev_primal_gap, primal_gap, cmax) ==
    IF switched
    THEN [switched |-> TRUE,
          c |-> IF primal_gap < FxMul(prev_primal_gap, THETA_C)
                THEN cmax ELSE FxMul(cmax, DELTA_C),
          broadcast |-> TRUE]
    ELSE IF primal_gap < TAU_C \/ cmax > EPS_C
    THEN [switched |-> TRUE, c |-> ZETA_C, broadcast |-> TRUE]
    ELSE [switched |-> FALSE, c |-> c, broadcast |-> FALSE]

\* mutant of HybridNode_adapt: a switched node adapts its own c, whatever
\* its neighbours have sent
HybridNode_adapt_own(switched, c, prev_primal_gap, primal_gap, cmax) ==
    IF switched
    THEN [switched |-> TRUE,
          c |-> IF primal_gap < FxMul(prev_primal_gap, THETA_C)
                THEN c ELSE FxMul(c, DELTA_C),
          broadcast |-> TRUE]
    ELSE IF (0 < primal_gap /\ primal_gap < TAU_C) \/ cmax > EPS_C
    THEN [switched |-> TRUE, c |-> ZETA_C, broadcast |-> TRUE]
    ELSE [switched |-> FALSE, c |-> c, broadcast |-> FALSE]

\* the end of iteration_end: the node's new switched flag and c, and whether
\* c is broadcast
HybridNode_adapt(switched, c, prev_primal_gap, primal_gap, cmax) ==
    IF switched
    THEN [switched |-> TRUE,
          c |-> IF primal_gap < FxMul(prev_primal_gap, THETA_C)
                THEN cmax ELSE FxMul(cmax, DELTA_C),
          broadcast |-> TRUE]
    ELSE IF (0 < primal_gap /\ primal_gap < TAU_C) \/ cmax > EPS_C
    THEN [switched |-> TRUE, c |-> ZETA_C, broadcast |-> TRUE]
    ELSE [switched |-> FALSE, c |-> c, broadcast |-> FALSE]

\* mutant of HybridNode_lam_update: the sum is not clamped
HybridNode_lam_update_unclamped(lam, c, residual) ==
    VAdd(lam, VScale(Penalty(c), residual))

\* HybridNode.iteration_end: the new value of a dual, lam plus c times the
\* residual, clamped to [-LAMMAX, LAMMAX]
HybridNode_lam_update(lam, c, residual) ==
    Clamp(-LAMMAX, LAMMAX, VAdd(lam, VScale(Penalty(c), residual)))

\* HybridNode.iteration_end(skip_lambda)
HybridNode_iteration_end(ns, i, t, skip_lambda) ==
    LET self == ns[i]
        c    == self.inst.c
        x    == self.inst.x.v
        zs(u, e) ==
            NetworkEdge_setattr(
                NetworkEdge_setattr(e, "z1",
                    Mat(<<self.uid, u, "z1", t>>,
                        VScale(One \div 2, VSub(e.props.m1s.v, e.props.m1r.v)))),
                "z2",
                Mat(<<self.uid, u, "z2", t>>,
                    VScale(One \div 2, VAdd(e.props.m2s.v, e.props.m2r.v))))
        lams(u, e) ==
            NetworkEdge_setattr(
                NetworkEdge_setattr(e, "lam1",
                    Mat(<<self.uid, u, "lam1", t>>,
                        HybridNode_lam_update(e.props.lam1.v, c,
                            VSub(VSub(x, e.props.x.v), e.props.z1.v)))),
                "lam2",
                Mat(<<self.uid, u, "lam2", t>>,
                    HybridNode_lam_update(e.props.lam2.v, c,
                        VSub(VAdd(x, e.props.x.v), e.props.z2.v))))
        self1 == [self EXCEPT !.edges.val =
                     [u \in DOMAIN self.edges.val |-> zs(u, self.edges.val[u])]]
        self2 == [self1 EXCEPT !.edges.val =
                     [u \in DOMAIN self.edges.val |-> lams(u, self1.edges.val[u])]]
        es   == DictValues(self2.edges)
        primal_gap ==
            MaxSeq(<<0>> \o [n \in 1..(2 * Len(es)) |->
                LET e == es[(n + 1) \div 2]
                IN  IF n % 2 = 1
                    THEN MaxAbs(VSub(VSub(x, e.props.x.v), e.props.z1.v))
                    ELSE MaxAbs(VSub(VAdd(x, e.props.x.v), e.props.z2.v))])
        cmax == Max(c, MaxSeq([n \in 1..Len(es) |-> es[n].props.c]))
        a    == HybridNode_adapt(self.inst.switched, c, self.inst.prev_primal_gap,
                                 primal_gap, cmax)
        self3 == [self2 EXCEPT !.inst.switched = a.switched,
                               !.inst.c = a.c,
                               !.inst.prev_primal_gap = primal_gap]
        ns3  == [ns EXCEPT ![i] = self3]
    IN  IF Missing(DictValues(self.edges), {"m1s", "m1r", "m2s", "m2r"})
        THEN Raise("ValueError")
        ELSE IF skip_lambda THEN Ok([ns EXCEPT ![i] = self1])
        ELSE IF Missing(DictValues(self.edges), {"lam1", "lam2", "x"})
        THEN Raise("ValueError")
        ELSE IF Len(es) = 0 \/ Missing(DictValues(self.edges), {"c"})
        THEN Raise("ValueError")
        ELSE IF a.broadcast THEN Ok(NetworkNode_broadcast(ns3, i, <<3, a.c>>))
        ELSE Ok(ns3)

----------------------------------------------------------------------------
(* algorithms/admm.py: ADMMNetworkNode                                     *)

EPS == 500
ZETA == 100
SQRTEPS == Sqrt(EPS * One)
SQRTZETA == Sqrt(ZETA * One)
ADMM_DELTA_C == 1010

\* ADMMNetworkNode.__init__(point)
ADMMNetworkNode(point, uid) ==
    [NetworkNode(point, uid) EXCEPT !.inst = [c |-> 2 * One]]

\* the edges edges_ordered() yields, as a map over their keys
OrderedKeys(self) == {self.order[n] : n \in 1..Len(self.order)}

\* ADMMNetworkNode.build_messages()
ADMMNetworkNode_build_messages(ns, i, t) ==
    LET self == ns[i]
        build(u, e) ==
            LET m1 == Mat(<<self.uid, u, "m1", t>>,
                          VAdd(VScale(SQRTEPS, VSub(self.inst.x.v, e.props.x.v)),
                               VDiv(e.props.lam1.v, self.inst.c)))
                m2 == Mat(<<self.uid, u, "m2", t>>,
                          VAdd(VScale(SQRTZETA, VAdd(self.inst.x.v, e.props.x.v)),
                               VDiv(e.props.lam2.v, self.inst.c)))
            IN  NetworkEdge_setattr(NetworkEdge_setattr(e, "m1s", m1), "m2s", m2)
        ns1 == [ns EXCEPT ![i].edges.val =
                   [u \in DOMAIN self.edges.val |->
                       IF u \in OrderedKeys(self) THEN build(u, self.edges.val[u])
                                                  ELSE self.edges.val[u]]]
        es  == NetworkNode_edges_ordered(ns1[i])
    IN  IF Missing(NetworkNode_edges_ordered(self), {"x", "lam1", "lam2"})
        THEN Raise("ValueError")
        ELSE Ok(SendAll(ns1, [n \in 1..(2 * Len(es)) |->
                   LET e == es[(n + 1) \div 2]
                   IN  IF n % 2 = 1 THEN <<e, <<1, e.props.m1s>>>>
                                    ELSE <<e, <<2, e.props.m2s>>>>]))

\* ADMMNetworkNode.first_iteration_start()
ADMMNetworkNode_first_iteration_start(ns, i, t) ==
    LET self == ns[i]
        self1 == [self EXCEPT !.inst =
                     ("x" :> Mat(<<self.uid, 0, "x", t>>,
                                 IF self.typ = "S" THEN Point_coords(self).val
                                                   ELSE Zeros(self.dim))) @@ @]
        start(u, e) ==
            NetworkEdge_setattr(
                NetworkEdge_setattr(
                    NetworkEdge_setattr(e, "x",
                        Mat(<<self.uid, u, "x", t>>, Zeros(self.dim))),
                    "lam1", Mat(<<self.uid, u, "lam1", t>>, Zeros(self.dim))),
                "lam2", Mat(<<self.uid, u, "lam2", t>>, Zeros(self.dim)))
        self2 == [self1 EXCEPT !.edges.val =
                     [u \in DOMAIN self.edges.val |->
                         IF u \in OrderedKeys(self) THEN start(u, self.edges.val[u])
                                                    ELSE self.edges.val[u]]]
    IN  ADMMNetworkNode_build_messages([ns EXCEPT ![i] = self2], i, t)

\* mutant of ADMMNetworkNode_handle: every message is stored as m1r
ADMMNetworkNode_handle_first(self, msg, sender) ==
    IF sender \notin DOMAIN self.edges.val THEN Raise("KeyError")
    ELSE Ok([self EXCEPT !.edges.val[sender] = NetworkEdge_setattr(@, "m1r", msg[2])])

\* ADMMNetworkNode.handle(msg, sender)
ADMMNetworkNode_handle(self, msg, sender) ==
    IF sender \notin DOMAIN self.edges.val THEN Raise("KeyError")
    ELSE Ok([self EXCEPT !.edges.val[sender] =
                NetworkEdge_setattr(@, IF msg[1] = 1 THEN "m1r" ELSE "m2r", msg[2])])

\* mutant of ADMMNetworkNode_update_z: z1 is the half sum, like z2
ADMMNetworkNode_update_z_sum(self, t) ==
    LET zs(u, e) ==
            NetworkEdge_setattr(
                NetworkEdge_setattr(e, "z1",
                    Mat(<<self.uid, u, "z1", t>>,
                        VScale(One \div 2, VAdd(e.props.m1s.v, e.props.m1r.v)))),
                "z2",
                Mat(<<self.uid, u, "z2", t>>,
                    VScale(One \div 2, VAdd(e.props.m2s.v, e.props.m2r.v))))
    IN  IF Missing(NetworkNode_edges_ordered(self), {"m1s", "m1r", "m2s", "m2r"})
        THEN Raise("ValueError")
        ELSE Ok([self EXCEPT !.edges.val =
                    [u \in DOMAIN self.edges.val |->
                        IF u \in OrderedKeys(self) THEN zs(u, self.edges.val[u])
                                                   ELSE self.edges.val[u]]])

\* ADMMNetworkNode.update_z()
ADMMNetworkNode_update_z(self, t) ==
    LET zs(u, e) ==
            NetworkEdge_setattr(
                NetworkEdge_setattr(e, "z1",
                    Mat(<<self.uid, u, "z1", t>>,
                        VScale(One \div 2, VSub(e.props.m1s.v, e.props.m1r.v)))),
                "z2",
                Mat(<<self.uid, u, "z2", t>>,
                    VScale(One \div 2, VAdd(e.props.m2s.v, e.props.m2r.v))))
    IN  IF Missing(NetworkNode_edges_ordered(self), {"m1s", "m1r", "m2s", "m2r"})
        THEN Raise("ValueError")
        ELSE Ok([self EXCEPT !.edges.val =
                    [u \in DOMAIN self.edges.val |->
                        IF u \in OrderedKeys(self) THEN zs(u, self.edges.val[u])
                                                   ELSE self.edges.val[u]]])

\* ADMMNetworkNode.update_y()
ADMMNetworkNode_update_y(self, t) ==
    LET es  == DictValues(self.edges)
        c   == self.inst.c
        len == Len(es)
        w1(e) == VSub(e.props.z1.v, VDiv(e.props.lam1.v, c))
        w2(e) == VSub(e.props.z2.v, VDiv(e.props.lam2.v, c))
        sw1 == VSum([n \in 1..len |-> w1(es[n])], self.dim)
        sw2 == VSum([n \in 1..len |-> w2(es[n])], self.dim)
        y   == VAdd(VDiv(sw2, 2 * SQRTZETA * len), VDiv(sw1, 2 * SQRTEPS * len))
        k1  == FxDiv(EPS - ZETA, 4 * FxMul(EPS, ZETA) * len)
        k2  == FxDiv(FxMul(ZETA - EPS, ZETA - EPS),
                     FxMul(FxMul(4 * (ZETA + EPS), ZETA), EPS) * len)
        ey(e) ==
            VAdd(VAdd(VScale(k1, VAdd(VScale(SQRTEPS, sw1), VScale(SQRTZETA, sw2))),
                      VSub(VScale(SQRTZETA, w2(e)), VScale(SQRTEPS, w1(e)))),
                 VScale(k2, VSub(VScale(SQRTZETA, sw2), VScale(SQRTEPS, sw1))))
    IN  IF Missing(es, {"z1", "z2", "lam1", "lam2"}) THEN Raise("ValueError")
        ELSE IF len = 0 THEN Raise("ZeroDivisionError")
        ELSE Ok([self EXCEPT
                    !.inst = ("y" :> Mat(<<self.uid, 0, "y", t>>, y)) @@ @,
                    !.edges.val = [u \in DOMAIN self.edges.val |->
                        NetworkEdge_setattr(self.edges.val[u], "y",
                            Mat(<<self.uid, u, "y", t>>, ey(self.edges.val[u])))]])

\* ADMMNetworkNode.iteration_end: the new value of a dual, lam plus c times
\* the residual
ADMMNetworkNode_lam_update(lam, c, residual) == VAdd(lam, VScale(c, residual))

\* mutant of ADMMNetworkNode_first_iteration_end: round 0 ends like a
\* steady-state round, dual update included
ADMMNetworkNode_first_iteration_end_dual(ns, i, t) ==
    LET z == ADMMNetworkNode_update_z(ns[i], t)
        self == z.val
        c == self.inst.c
        x == self.inst.x.v
        lams(e) ==
            NetworkEdge_setattr(
                NetworkEdge_setattr(e, "lam1",
                    [e.props.lam1 EXCEPT !.v =
                        ADMMNetworkNode_lam_update(@, c,
                            VSub(VScale(SQRTEPS, VSub(x, e.props.x.v)), e.props.z1.v))]),
                "lam2",
                [e.props.lam2 EXCEPT !.v =
                    ADMMNetworkNode_lam_update(@, c,
                        VSub(VScale(SQRTZETA, VAdd(x, e.props.x.v)), e.props.z2.v))])
        self1 == [self EXCEPT !.edges.val =
                     [u \in DOMAIN self.edges.val |-> lams(self.edges.val[u])],
                              !.inst.c = FxMul(@, ADMM_DELTA_C)]
        y == ADMMNetworkNode_update_y(self1, t)
    IN  IF z.raised THEN z
        ELSE IF y.raised THEN y
        ELSE Ok([ns EXCEPT ![i] = y.val])

\* ADMMNetworkNode.first_iteration_end()
ADMMNetworkNode_first_iteration_end(ns, i, t) ==
    LET z == ADMMNetworkNode_update_z(ns[i], t)
        y == ADMMNetworkNode_update_y(
                 [z.val EXCEPT !.inst.c = FxMul(@, ADMM_DELTA_C)], t)
    IN  IF z.raised THEN z
        ELSE IF y.raised THEN y
        ELSE Ok([ns EXCEPT ![i] = y.val])

\* ADMMNetworkNode.iteration_start(), d the move of the local minimizer
ADMMNetworkNode_iteration_start(ns, i, t, d) ==
    LET self == ns[i]
        self1 == IF self.typ = "S" THEN self
                 ELSE [self EXCEPT !.inst.x =
                          Mat(<<self.uid, 0, "x", t>>, Minimize(self.inst.x.v, d))]
        self2 == [self1 EXCEPT !.edges.val =
                     [u \in DOMAIN self.edges.val |->
                         IF u \in OrderedKeys(self)
                         THEN NetworkEdge_setattr(self.edges.val[u], "x",
                                  Mat(<<self.uid, u, "x", t>>,
                                      Minimize(self.edges.val[u].props.x.v, d)))
                         ELSE self.edges.val[u]]]
    IN  IF Missing(NetworkNode_edges_ordered(self), {"x", "dist", "y"})
        THEN Raise("ValueError")
        ELSE IF "x" \notin DOMAIN self.inst \/ "y" \notin DOMAIN self.inst
        THEN Raise("AttributeError")
        ELSE ADMMNetworkNode_build_messages([ns EXCEPT ![i] = self2], i, t)

\* ADMMNetworkNode.iteration_end()
ADMMNetworkNode_iteration_end(ns, i, t) ==
    LET z == ADMMNetworkNode_update_z(ns[i], t)
        self == z.val
        c == self.inst.c
        x == self.inst.x.v
        lams(e) ==
            NetworkEdge_setattr(
                NetworkEdge_setattr(e, "lam1",
                    [e.props.lam1 EXCEPT !.v =
                        ADMMNetworkNode_lam_update(@, c,
                            VSub(VScale(SQRTEPS, VSub(x, e.props.x.v)), e.props.z1.v))]),
                "lam2",
                [e.props.lam2 EXCEPT !.v =
                    ADMMNetworkNode_lam_update(@, c,
                        VSub(VScale(SQRTZETA, VAdd(x, e.props.x.v)), e.props.z2.v))])
        self1 == [self EXCEPT !.edges.val =
                     [u \in DOMAIN self.edges.val |-> lams(self.edges.val[u])],
                              !.inst.c = FxMul(@, ADMM_DELTA_C)]
        y == ADMMNetworkNode_update_y(self1, t)
    IN  IF z.raised THEN z
        ELSE IF Missing(DictValues(self.edges), {"lam1", "lam2", "x"})
        THEN Raise("ValueError")
        ELSE IF y.raised THEN y
        ELSE Ok([ns EXCEPT ![i] = y.val])

----------------------------------------------------------------------------
(* algorithms/convexrelaxationasync.py: CRANetworkNode                     *)

\* random.uniform(a, b): a + (b - a) * random(), the fraction random()
\* returns taken from the random module
Uniform(r, k, a, b) ==
    a + FxMul(r.unif[((r.upos - 1 + k - 1) % Len(r.unif)) + 1], b - a)

\* random_vector(spans): one draw per coordinate
random_vector(spans, r) ==
    [k \in 1..Len(spans) |-> Uniform(r, k, spans[k][1] - One, spans[k][2] + One)]

\* the random module after n calls of random.uniform
AdvanceUniform(r, n) == [r EXCEPT !.upos = ((@ - 1 + n) % Len(r.unif)) + 1]

\* the bounds of the problem computed at the start of solve
Spans(pts) ==
    IF pts[1].typ # "S" THEN Raise("ValueError: Attempt to acess coords of agent")
    ELSE Ok([k \in 1..Len(pts[1].coords) |->
                <<CHOOSE m \in {pts[i].coords[k] : i \in 1..Len(pts)} :
                      \A i \in 1..Len(pts) : m <= pts[i].coords[k],
                  CHOOSE m \in {pts[i].coords[k] : i \in 1..Len(pts)} :
                      \A i \in 1..Len(pts) : m >= pts[i].coords[k]>>])

\* CRANetworkNode.__init__(point, spans): the attributes it adds to the
\* node `self` NetworkNode.__init__ made
CRANetworkNode(self, spans, r) ==
    [self EXCEPT !.inst =
        [x |-> Mat(<<self.uid, 0, "init", 0>>,
                   IF self.typ = "S" THEN self.coords ELSE random_vector(spans, r)),
         spans |-> spans]]

\* mutant of CRANetworkNode_handle: an estimate already stored on the edge
\* is kept
CRANetworkNode_handle_first(self, msg, sender) ==
    IF self.typ = "S" THEN Ok(self)
    ELSE IF sender \notin DOMAIN self.edges.val THEN Raise("KeyError")
    ELSE IF "x" \in DOMAIN self.edges.val[sender].props THEN Ok(self)
    ELSE Ok([self EXCEPT !.edges.val[sender] = NetworkEdge_setattr(@, "x", msg)])

\* CRANetworkNode.handle(msg, sender)
CRANetworkNode_handle(self, msg, sender) ==
    IF self.typ = "S" THEN Ok(self)
    ELSE IF sender \notin DOMAIN self.edges.val THEN Raise("KeyError")
    ELSE Ok([self EXCEPT !.edges.val[sender] = NetworkEdge_setattr(@, "x", msg)])

\* CRANetworkNode.num_anchor_neighbours()
CRANetworkNode_num_anchor_neighbours(self) ==
    Cardinality({u \in DOMAIN self.edges.val : self.edges.val[u].props.typ = "S"})

RECURSIVE CRANetworkNode_descend(_, _, _, _, _)
\* the while loop of update from its l-th test on: the final z
CRANetworkNode_descend(self, lipschitz, z, prev, l) ==
    IF ~(l = 0 \/ (l < 500 /\ Norm(VSub(z, prev)) > 1)) THEN z
    ELSE LET l1 == l + 1
             w  == VAdd(z, VScale(TDiv((l1 - 2) * One, l1 + 1), VSub(z, prev)))
             es == DictValues(self.edges)
             proj(e) ==
                 LET n    == VSub(w, e.props.x.v)
                     norm == Norm(n)
                 IN  VAdd(IF norm > e.props.dist
                          THEN VScale(FxDiv(e.props.dist, norm), n) ELSE n,
                          e.props.x.v)
             term(e) ==
                 VAdd(VScale(-(One \div 2), proj(e)),
                      IF e.props.typ = "S" THEN VSub(w, proj(e)) ELSE Zeros(self.dim))
             df == VAdd([k \in 1..self.dim |-> FxMul(One \div 2, w[k]) * Len(es)],
                        VSum([n \in 1..Len(es) |-> term(es[n])], self.dim))
         IN  CHOOSE r \in {CRANetworkNode_descend(self, lipschitz, zn, z, l1) :
                               zn \in {VSub(w, VDiv(df, lipschitz * One))}} : TRUE

\* CRANetworkNode.update(lipschitz) of node i in iteration t: the nodes
\* afterwards; a division by lipschitz = 0 gives nan without an exception
CRANetworkNode_update(ns, i, lipschitz, r, t) ==
    LET self == ns[i]
        z0   == random_vector(self.inst.spans, r)
    IN  IF self.typ = "S" THEN Ok(ns)
        ELSE IF Missing(DictValues(self.edges), {"x", "dist"}) THEN Raise("ValueError")
        ELSE LET z == IF lipschitz = 0 THEN [k \in 1..self.dim |-> "nan"]
                      ELSE CRANetworkNode_descend(self, lipschitz, z0, z0, 0)
             IN  CHOOSE res \in
                     {Ok(NetworkNode_broadcast([ns EXCEPT ![i].inst.x = x], i, x)) :
                         x \in {Mat(<<self.uid, 0, "update", t>>, z)}} : TRUE

----------------------------------------------------------------------------
(* Scenario 4: solve(points, args) of algorithms/admm.py and admmh.py.     *)

\* the node class a solver hands to Network
PointCls(algorithm, point, uid) ==
    CASE algorithm = "admmh" -> HybridNode(point, uid)
      [] algorithm = "admm"  -> ADMMNetworkNode(point, uid)
      [] OTHER               -> NetworkNode(point, uid)

\* a subclass of NetworkNode that overrides handle, as the module's
\* docstring asks: it keeps the (message, sender) pairs handle was called
\* with
RecorderNode(point, uid) ==
    [NetworkNode(point, uid) EXCEPT !.inst = [handled |-> <<>>]]

\* what RecorderNode.handle enqueues on its own node: a message
\* ("fwd", n) with n > 0 is passed on as ("fwd", n - 1)
Spawned(self, msg) ==
    IF msg[1] = "fwd" /\ msg[2] > 0 THEN <<<<<<"fwd", msg[2] - 1>>, self.uid>>>>
    ELSE <<>>

\* RecorderNode.handle(msg, sender)
RecorderNode_handle(self, msg, sender) ==
    Ok([self EXCEPT !.inst.handled = Append(@, <<msg, sender>>),
                    !.message_queue = @ \o Spawned(self, msg)])

\* self.handle(msg, sender) of the node's class
Handle(algorithm, self, msg, sender) ==
    CASE algorithm = "admmh" -> HybridNode_handle(self, msg, sender)
      [] algorithm = "admm"  -> ADMMNetworkNode_handle(self, msg, sender)
      [] algorithm = "recorder" -> RecorderNode_handle(self, msg, sender)
      [] algorithm = "convexrelaxationasync" ->
            CRANetworkNode_handle(self, msg, sender)
      [] OTHER               -> Ok(self)

RECURSIVE NetworkNode_handle_messages_lifo(_, _)
\* mutant of NetworkNode_handle_messages: the newest pair is popped first
NetworkNode_handle_messages_lifo(self, algorithm) ==
    IF Len(self.message_queue) = 0 THEN Ok(self)
    ELSE LET n == Len(self.message_queue)
             m == self.message_queue[n]
             h == Handle(algorithm,
                         [self EXCEPT !.message_queue = SubSeq(@, 1, n - 1)],
                         m[1], m[2])
         IN  IF h.raised THEN h
             ELSE NetworkNode_handle_messages_lifo(h.val, algorithm)

RECURSIVE NetworkNode_handle_messages_leave_one(_, _)
\* mutant of NetworkNode_handle_messages: the last message stays in the
\* mailbox
NetworkNode_handle_messages_leave_one(self, algorithm) ==
    IF Len(self.message_queue) <= 1 THEN Ok(self)
    ELSE LET m == Head(self.message_queue)
             h == Handle(algorithm, [self EXCEPT !.message_queue = Tail(@)],
                         m[1], m[2])
         IN  IF h.raised THEN h
             ELSE NetworkNode_handle_messages_leave_one(h.val, algorithm)

RECURSIVE NetworkNode_handle_messages(_, _)
\* NetworkNode.handle_messages()
NetworkNode_handle_messages(self, algorithm) ==
    IF Len(self.message_queue) = 0 THEN Ok(self)
    ELSE LET m == Head(self.message_queue)
             h == Handle(algorithm, [self EXCEPT !.message_queue = Tail(@)],
                         m[1], m[2])
         IN  IF h.raised THEN h ELSE NetworkNode_handle_messages(h.val, algorithm)

RECURSIVE Network_measure_distances(_, _, _, _)
\* Network._measure_distances(sigma) from the loop position c on: the nodes
\* and the random module when the loops end
Network_measure_distances(ns, c, sigma, r) ==
    IF c.i > Len(ns) THEN [nodes |-> ns, rng |-> r]
    ELSE Network_measure_distances(
             Network_measure_one(ns, c.i, c.k, sigma, NextZ(r)),
             NormCursor(ns, c.i, c.k + 1), sigma, Advance(r))

\* Network(points, point_cls, args): the nodes built, the random module
\* afterwards, and whether DisconnectedGraphError was raised
Network(pts, a, us, r) ==
    LET created == [i \in 1..Len(pts) |-> PointCls(a.algorithm, pts[i], us[i])]
        ns == Network_add_neighbours(created, a.visibility)
        m  == Network_measure_distances(ns, NormCursor(ns, 1, 1), a.sigma, r)
    IN  [nodes |-> m.nodes, rng |-> m.rng,
         raised |-> ~Network_check_connectivity(m.nodes)]

\* the hooks solve calls on every node, loop after loop, in a round
Hooks(algorithm, round) ==
    IF algorithm = "admmh"
    THEN IF round = 0
         THEN <<"postinit", "build_messages", "handle_messages", "iteration_end">>
         ELSE <<"iteration_begin", "handle_messages", "iteration_end">>
    ELSE IF round = 0
         THEN <<"first_iteration_start", "handle_messages", "first_iteration_end">>
         ELSE <<"iteration_start", "handle_messages", "iteration_end">>

\* mutant of Solve_next: the loops of a round are fused into one loop over
\* the nodes
Solve_next_fused(c, n, J, algorithm) ==
    IF c.loop < Len(Hooks(algorithm, c.round)) THEN [c EXCEPT !.loop = @ + 1]
    ELSE IF c.idx < n THEN [c EXCEPT !.idx = @ + 1, !.loop = 1]
    ELSE IF c.round < J THEN [round |-> c.round + 1, loop |-> 1, idx |-> 1]
    ELSE [round |-> c.round, loop |-> 0, idx |-> 0]

\* the position of solve after one hook call at position c: the next node
\* of the loop, the next loop of the round, the next round, or the return
\* statement (loop 0)
Solve_next(c, n, J, algorithm) ==
    IF c.idx < n THEN [c EXCEPT !.idx = @ + 1]
    ELSE IF c.loop < Len(Hooks(algorithm, c.round)) THEN [c EXCEPT !.loop = @ + 1, !.idx = 1]
    ELSE IF c.round < J THEN [round |-> c.round + 1, loop |-> 1, idx |-> 1]
    ELSE [round |-> c.round, loop |-> 0, idx |-> 0]

\* args.iterations is one of 0..MaxIter
MaxIter == 2

\* input lists of the solvers: n points on a line, left to right, each an
\* anchor or an agent
SolveInputs ==
    {[i \in 1..n |-> Point(<<c[i]>>, ty[i])] :
        n \in 1..MaxNodes,
        c \in {f \in [1..MaxNodes -> Coord] :
                  \A i \in 1..(MaxNodes - 1) : f[i] <= f[i + 1]},
        ty \in [1..MaxNodes -> {"S", "A"}]}

\* the random module at the start of a solver run: no noise, or sigma 0.5
\* and a stream of draws that alternates
SolveNoise ==
    {[sigma |-> 0, stream |-> [k \in 1..StreamLen |-> 0]],
     [sigma |-> One \div 2,
      stream |-> [k \in 1..StreamLen |-> IF k % 2 = 1 THEN One ELSE -3 * One]]}

InitSolve ==
    /\ points \in SolveInputs
    /\ \E v \in {One + One \div 2}, env \in SolveNoise, algorithm \in {"admm", "admmh"},
          J \in 0..MaxIter :
          LET a   == [visibility |-> v, sigma |-> env.sigma, iterations |-> J,
                      algorithm |-> algorithm]
              us  == [i \in 1..Len(points) |-> 10 + i]
              net == Network(points, a, us, [stream |-> env.stream, pos |-> 1])
          IN  /\ us \in UidChoices({}, Len(points))
              /\ ~net.raised
              /\ args = a
              /\ nodes = net.nodes
              /\ rng = net.rng
              /\ GENERATED_UIDS = {us[i] : i \in 1..Len(points)}
    /\ pc = "solve"
    /\ cur = [round |-> 0, loop |-> 1, idx |-> 1]
    /\ log = <<>>
    /\ minimizer \in {[moves |-> m, pos |-> 1] : m \in SeqsOfLen(MinimizerMoves, StreamLen)}
    /\ mstCalls = 0
    /\ ret = NoCall
    /\ EdgeIdle
    /\ PointIdle

\* solve is about to call `hook` on node cur.idx
At(algorithm, hook) ==
    /\ pc = "solve"
    /\ args.algorithm = algorithm
    /\ cur.loop > 0
    /\ Hooks(algorithm, cur.round)[cur.loop] = hook

\* one hook call of solve with the outcome r: the loops go on, or the
\* exception ends solve; the hook called the minimizer `calls` times
Called(hook, r, calls) ==
    /\ minimizer' = [minimizer EXCEPT
                        !.pos = ((@ - 1 + calls) % Len(minimizer.moves)) + 1]
    /\ log' = Append(log, [hook |-> hook, node |-> cur.idx, round |-> cur.round])
    /\ IF r.raised
       THEN /\ pc' = "raised"
            /\ ret' = [op |-> "solve", raised |-> TRUE, val |-> r.val]
            /\ UNCHANGED <<nodes, cur>>
       ELSE /\ nodes' = r.val
            /\ cur' = Solve_next(cur, Len(nodes), args.iterations, args.algorithm)
            /\ UNCHANGED <<pc, ret>>
    /\ UNCHANGED <<points, args, rng, GENERATED_UIDS, mstCalls, edgeVars, pointVars>>

\* the move the next call of the minimizer makes
NextMove == minimizer.moves[minimizer.pos]

\* admmh: pt.postinit()
Postinit ==
    /\ At("admmh", "postinit")
    /\ Called("postinit", HybridNode_postinit(nodes, cur.idx, cur.round), 0)

\* admmh: pt.build_messages()
BuildMessages ==
    /\ At("admmh", "build_messages")
    /\ Called("build_messages", HybridNode_build_messages(nodes, cur.idx, cur.round),
              0)

\* admm and admmh: pt.handle_messages()
HandleMessages ==
    /\ \E algorithm \in {"admm", "admmh"} : At(algorithm, "handle_messages")
    /\ LET h == NetworkNode_handle_messages(nodes[cur.idx], args.algorithm)
       IN  Called("handle_messages",
                  IF h.raised THEN h ELSE Ok([nodes EXCEPT ![cur.idx] = h.val]), 0)

\* admmh: pt.iteration_begin()
IterationBegin ==
    /\ At("admmh", "iteration_begin")
    /\ Called("iteration_begin",
              HybridNode_iteration_begin(nodes, cur.idx, cur.round, NextMove),
              IF nodes[cur.idx].typ = "A" THEN 1 ELSE 0)

\* admmh: pt.iteration_end(skip_lambda=True) in round 0, pt.iteration_end()
\* in the later rounds
IterationEnd ==
    /\ At("admmh", "iteration_end")
    /\ Called("iteration_end",
              HybridNode_iteration_end(nodes, cur.idx, cur.round, cur.round = 0), 0)

\* admm: pt.first_iteration_start()
FirstIterationStart ==
    /\ At("admm", "first_iteration_start")
    /\ Called("first_iteration_start",
              ADMMNetworkNode_first_iteration_start(nodes, cur.idx, cur.round), 0)

\* admm: pt.first_iteration_end()
FirstIterationEnd ==
    /\ At("admm", "first_iteration_end")
    /\ Called("first_iteration_end",
              ADMMNetworkNode_first_iteration_end(nodes, cur.idx, cur.round), 0)

\* admm: pt.iteration_start()
IterationStart ==
    /\ At("admm", "iteration_start")
    /\ Called("iteration_start",
              ADMMNetworkNode_iteration_start(nodes, cur.idx, cur.round, NextMove), 1)

\* admm: pt.iteration_end()
AdmmIterationEnd ==
    /\ At("admm", "iteration_end")
    /\ Called("iteration_end",
              ADMMNetworkNode_iteration_end(nodes, cur.idx, cur.round), 0)

\* return [tuple(float(c) for c in pt.x) for pt in network.points]
Return ==
    /\ pc = "solve"
    /\ cur.loop = 0
    /\ pc' = "returned"
    /\ ret' = [op |-> "solve", raised |-> FALSE,
               val |-> [i \in 1..Len(nodes) |-> nodes[i].inst.x.v]]
    /\ UNCHANGED <<points, args, nodes, cur, rng, GENERATED_UIDS, mstCalls, log,
                   minimizer, edgeVars, pointVars>>

NextSolve ==
    \/ Postinit \/ BuildMessages \/ HandleMessages \/ IterationBegin
    \/ IterationEnd \/ FirstIterationStart \/ FirstIterationEnd
    \/ IterationStart \/ AdmmIterationEnd \/ Return

SpecSolve == InitSolve /\ [][NextSolve]_vars

\* Scenario 4b: longer runs of the Hybrid solver alone, on noiseless
\* networks of at least two nodes

\* args.iterations of the longer Hybrid runs
HybridRounds == 3

InitHybrid ==
    /\ points \in {ps \in SolveInputs : Len(ps) >= 2}
    /\ LET a   == [visibility |-> One + One \div 2, sigma |-> 0,
                   iterations |-> HybridRounds, algorithm |-> "admmh"]
           us  == [i \in 1..Len(points) |-> 10 + i]
           net == Network(points, a, us,
                          [stream |-> [k \in 1..StreamLen |-> 0], pos |-> 1])
       IN  /\ ~net.raised
           /\ args = a
           /\ nodes = net.nodes
           /\ rng = net.rng
           /\ GENERATED_UIDS = {us[i] : i \in 1..Len(points)}
    /\ pc = "solve"
    /\ cur = [round |-> 0, loop |-> 1, idx |-> 1]
    /\ log = <<>>
    /\ minimizer \in {[moves |-> m, pos |-> 1] : m \in SeqsOfLen(MinimizerMoves, StreamLen)}
    /\ mstCalls = 0
    /\ ret = NoCall
    /\ EdgeIdle
    /\ PointIdle

NextHybrid ==
    \/ Postinit \/ BuildMessages \/ HandleMessages \/ IterationBegin
    \/ IterationEnd \/ Return

SpecHybrid == InitHybrid /\ [][NextHybrid]_vars

\* Scenario 4c: the dual update of the finalize hooks alone, on one edge of
\* one node, for residuals of any size

\* the number of finalize hooks run on the edge
DualRounds == 3

\* the residuals the model keeps, zero and one large value of either sign
\* for each solver
Residuals(algorithm) ==
    IF algorithm = "admm" THEN {-400 * One, 0, 400 * One}
    ELSE {-30000 * One, 0, 30000 * One}

InitDual ==
    /\ \E algorithm \in {"admm", "admmh"} :
          /\ args = [algorithm |-> algorithm]
          /\ \E c \in IF algorithm = "admm" THEN {2 * One} ELSE {EPS_C, ZETA_C} :
                nodes = <<[uid |-> 11, dim |-> 1, inst |-> [c |-> c],
                           edges |-> [keys |-> <<12>>,
                                      val |-> (12 :> [attrs |-> [_source |-> 1, _dest |-> 2],
                                                      props |-> [lam1 |-> Mat(<<11, 12, "lam1", 0>>, <<0>>),
                                                                 lam2 |-> Mat(<<11, 12, "lam2", 0>>, <<0>>)]])]]>>
    /\ pc = "dual"
    /\ cur = 0
    /\ points = <<>> /\ rng = 0 /\ GENERATED_UIDS = {} /\ mstCalls = 0
    /\ log = <<>> /\ minimizer = 0
    /\ ret = NoCall
    /\ EdgeIdle
    /\ PointIdle

\* ADMMNetworkNode.iteration_end on the edge: the duals, then c *= DELTA_C
AdmmDualStep ==
    /\ pc = "dual" /\ args.algorithm = "admm" /\ cur < DualRounds
    /\ \E r1 \in Residuals("admm"), r2 \in Residuals("admm") :
          nodes' = [nodes EXCEPT
              ![1].edges.val[12].props.lam1.v =
                  ADMMNetworkNode_lam_update(@, nodes[1].inst.c, <<r1>>),
              ![1].edges.val[12].props.lam2.v =
                  ADMMNetworkNode_lam_update(@, nodes[1].inst.c, <<r2>>),
              ![1].inst.c = FxMul(@, ADMM_DELTA_C)]
    /\ cur' = cur + 1
    /\ UNCHANGED <<points, args, pc, rng, GENERATED_UIDS, mstCalls, log, minimizer,
                   ret, edgeVars, pointVars>>

\* HybridNode.iteration_end on the edge: the duals, then c held or grown
HybridDualStep ==
    /\ pc = "dual" /\ args.algorithm = "admmh" /\ cur < DualRounds
    /\ \E r1 \in Residuals("admmh"), r2 \in Residuals("admmh"), grow \in BOOLEAN :
          nodes' = [nodes EXCEPT
              ![1].edges.val[12].props.lam1 =
                  Mat(<<11, 12, "lam1", cur + 1>>,
                      HybridNode_lam_update(@.v, nodes[1].inst.c, <<r1>>)),
              ![1].edges.val[12].props.lam2 =
                  Mat(<<11, 12, "lam2", cur + 1>>,
                      HybridNode_lam_update(@.v, nodes[1].inst.c, <<r2>>)),
              ![1].inst.c = IF grow THEN FxMul(@, DELTA_C) ELSE @]
    /\ cur' = cur + 1
    /\ UNCHANGED <<points, args, pc, rng, GENERATED_UIDS, mstCalls, log, minimizer,
                   ret, edgeVars, pointVars>>

NextDual == AdmmDualStep \/ HybridDualStep

SpecDual == InitDual /\ [][NextDual]_vars

\* Scenario 4d: mst() on a network whose edges carry protocol state: the
\* network is built without the connectivity check and postinit of the
\* Hybrid solver has run on every node

RECURSIVE PostinitAll(_, _)
\* for pt in network.points: pt.postinit(), from node i on
PostinitAll(ns, i) ==
    IF i > Len(ns) THEN ns
    ELSE PostinitAll(HybridNode_postinit(ns, i, 0).val, i + 1)

InitTree ==
    /\ points \in NetInputs
    /\ \E v \in Visibilities, env \in NoiseEnvs :
          LET a   == [visibility |-> v, sigma |-> env.sigma, iterations |-> 0,
                      algorithm |-> "admmh"]
              us  == [i \in 1..Len(points) |-> 10 + i]
              net == Network(points, a, us, [stream |-> env.stream, pos |-> 1])
          IN  /\ args = a
              /\ nodes = PostinitAll(net.nodes, 1)
              /\ rng = net.rng
              /\ GENERATED_UIDS = {us[i] : i \in 1..Len(points)}
              /\ cur = NormCursor(net.nodes, Len(points) + 1, 1)
    /\ pc = "built"
    /\ ret = [op |-> "Network", check_disconnect |-> FALSE, raised |-> FALSE]
    /\ mstCalls = 0
    /\ log = <<>>
    /\ minimizer = 0
    /\ EdgeIdle
    /\ PointIdle

NextTree == Mst \/ MeasureStep

SpecTree == InitTree /\ [][NextTree]_vars

\* Scenario 4e: the objective and the gradient that iteration_begin hands
\* to scipy.optimize.minimize, evaluated on one agent whose edges carry the
\* y that iteration_begin has set

\* the body of the edge loop of HybridNode.func(x): the reference point, the
\* distance to it, the denominator c and the test of the if
HybridNode_func_edge(ns, self, e, x) ==
    LET anchor == NetworkEdge_getattr(e, "typ").val = "S"
        ref    == IF anchor
                  THEN Point_coords(ns[NetworkEdge_getattr(e, "pt").val]).val
                  ELSE NetworkEdge_getattr(e, "y").val.v
        argn   == Norm(VSub(x, ref))
    IN  [ref   |-> ref,
         argn  |-> argn,
         c     |-> IF anchor THEN 2 * Penalty(self.inst.c) + One
                             ELSE 2 * Penalty(self.inst.c),
         takes |-> self.inst.switched \/ NetworkEdge_getattr(e, "dist").val < argn]

\* HybridNode.func(x)
HybridNode_func(ns, i, x) ==
    LET self == ns[i]
        es   == DictValues(self.edges)
        term(n) ==
            LET f    == HybridNode_func_edge(ns, self, es[n], x)
                dist == NetworkEdge_getattr(es[n], "dist").val
            IN  IF f.takes
                THEN FxDiv(FxMul(f.argn - dist, f.argn - dist), f.c)
                ELSE 0
        s    == SumSeq([n \in 1..Len(es) |-> term(n)])
        r    == VSub(x, self.inst.y.v)
    IN  FxMul(One \div 2, SumSeq([k \in DOMAIN r |-> FxMul(r[k], r[k])]))
          + FxDiv(FxMul(s, One \div 2), Len(es) * One)

\* the body of the edge loop of HybridNode.funcgrad(x): q, its norm val, the
\* denominator c and the test of the if
HybridNode_funcgrad_edge(ns, self, e, x) ==
    LET agent == NetworkEdge_getattr(e, "typ").val = "A"
        ref   == IF agent
                 THEN NetworkEdge_getattr(e, "y").val.v
                 ELSE Point_coords(ns[NetworkEdge_getattr(e, "pt").val]).val
        q     == VSub(x, ref)
        val   == Norm(q)
    IN  [ref   |-> ref,
         q     |-> q,
         val   |-> val,
         c     |-> IF agent THEN 2 * Penalty(self.inst.c) + One
                            ELSE 2 * Penalty(self.inst.c),
         takes |-> val > 0 /\ (self.inst.switched
                                 \/ NetworkEdge_getattr(e, "dist").val < val)]

\* HybridNode.funcgrad(x)
HybridNode_funcgrad(ns, i, x) ==
    LET self == ns[i]
        es   == DictValues(self.edges)
        term(n) ==
            LET g    == HybridNode_funcgrad_edge(ns, self, es[n], x)
                dist == NetworkEdge_getattr(es[n], "dist").val
            IN  IF g.takes
                THEN VDiv(VScale(g.val - dist, g.q),
                          FxMul(g.c * Len(es), g.val))
                ELSE Zeros(self.dim)
    IN  VAdd(VSub(x, self.inst.y.v),
             VSum([n \in 1..Len(es) |-> term(n)], self.dim))

\* the agent of the call with its two neighbours
GradInputs ==
    {<<Point(<<c[1]>>, "A"), Point(<<c[2]>>, ty[2]), Point(<<c[3]>>, ty[3])>> :
        c \in [1..3 -> Coord], ty \in [2..3 -> {"S", "A"}]}

\* switched and c of a node: (False, EPS_C) until the switch, (True, c) with
\* c >= ZETA_C after it
GradModes ==
    {[switched |-> FALSE, c |-> EPS_C],
     [switched |-> TRUE, c |-> ZETA_C],
     [switched |-> TRUE, c |-> FxMul(ZETA_C, DELTA_C)]}

InitGrad ==
    /\ points \in GradInputs
    /\ args = [visibility |-> (MaxCoord + 1) * One, sigma |-> 0,
               iterations |-> 1, algorithm |-> "admmh"]
    /\ GENERATED_UIDS = {10 + i : i \in 1..Len(points)}
    /\ \E net \in {Network(points, args, [i \in 1..Len(points) |-> 10 + i],
                            [stream |-> [k \in 1..StreamLen |-> 0], pos |-> 1])} :
          /\ rng = net.rng
          /\ \E m \in GradModes, y \in Coord, ey \in [2..3 -> Coord] :
                \E self \in {net.nodes[1]} :
                   nodes = [net.nodes EXCEPT ![1] =
                      [self EXCEPT
                          !.inst = ("y" :> Mat(<<self.uid, 0, "y", 1>>, <<y>>))
                                     @@ [@ EXCEPT !.switched = m.switched,
                                                  !.c = m.c],
                          !.edges.val =
                              [u \in DOMAIN self.edges.val |->
                                  NetworkEdge_setattr(self.edges.val[u], "y",
                                      Mat(<<self.uid, u, "y", 1>>,
                                          <<ey[u - 10]>>))]]]
    /\ pc = "minimize"
    /\ cur = [round |-> 1, loop |-> 1, idx |-> 1]
    /\ ret = NoCall
    /\ mstCalls = 0
    /\ log = <<>>
    /\ minimizer = 0
    /\ EdgeIdle
    /\ PointIdle

\* one evaluation of func and of jac=funcgrad by scipy.optimize.minimize
Evaluate ==
    /\ pc = "minimize"
    /\ \E x \in Coord :
          ret' = [op |-> "minimize", x |-> <<x>>,
                  func |-> HybridNode_func(nodes, 1, <<x>>),
                  funcgrad |-> HybridNode_funcgrad(nodes, 1, <<x>>)]
    /\ UNCHANGED <<edge, written, pt, other, points, args, nodes, pc, cur, rng,
                   GENERATED_UIDS, mstCalls, log, minimizer>>

NextGrad == Evaluate

SpecGrad == InitGrad /\ [][NextGrad]_vars

----------------------------------------------------------------------------
(* Scenario 5: solve(points, args) of algorithms/mds.py with               *)
(* args.iterations = 0.  The rows of X are in units of a quarter; the      *)
(* returned numbers are exact quotients num / den, a zero den standing for *)
(* the inf or nan numpy produces.                                          *)

\* collinear(pt1, pt2, pt3): abs(x1 * y2 - x2 * y1) < 1e-3
Mds_collinear(pt1, pt2, pt3) ==
    LET x1 == pt1.coords[1] - pt2.coords[1]
        y1 == pt1.coords[2] - pt2.coords[2]
        x2 == pt1.coords[1] - pt3.coords[1]
        y2 == pt1.coords[2] - pt3.coords[2]
    IN  Abs(FxMul(x1, y2) - FxMul(x2, y1)) < 1

RECURSIVE Mds_pick(_, _)
\* while collinear(anchors[0], anchors[1], anchors[-1]): anchors.pop()
Mds_pick(ns, anchors) ==
    IF Len(anchors) < 2 THEN Raise("IndexError")
    ELSE IF \E n \in {1, 2, Len(anchors)} : ns[anchors[n]].dim < 2
    THEN Raise("IndexError")
    ELSE IF Mds_collinear(ns[anchors[1]], ns[anchors[2]], ns[anchors[Len(anchors)]])
    THEN Mds_pick(ns, SubSeq(anchors, 1, Len(anchors) - 1))
    ELSE Ok(anchors)

\* the part of solve after the iterations: the transformation Q is fitted
\* to three anchors and applied to every row of X
Mds_transform(ns, X) ==
    LET picked == Mds_pick(ns, SelectSeq([i \in 1..Len(ns) |-> i],
                                         LAMBDA i : ns[i].typ = "S"))
        a  == picked.val
        x1 == X[a[1]][1]
        y1 == X[a[1]][2]
        x2 == X[a[2]][1]
        y2 == X[a[2]][2]
        x3 == X[a[Len(a)]][1]
        y3 == X[a[Len(a)]][2]
        t1 == ns[a[1]].coords[1]
        s1 == ns[a[1]].coords[2]
        t2 == ns[a[2]].coords[1]
        s2 == ns[a[2]].coords[2]
        t3 == ns[a[Len(a)]].coords[1]
        s3 == ns[a[Len(a)]].coords[2]
        n1 == y1 * (x2 - x3) + y2 * (x3 - x1) + y3 * (x1 - x2)
        n2 == x3 * (y1 - y2) + x1 * (y2 - y3) + x2 * (y3 - y1)
        q00 == y1 * (t2 - t3) + y2 * (t3 - t1) + y3 * (t1 - t2)
        q01 == t3 * (x2 - x1) + t2 * (x1 - x3) + t1 * (x3 - x2)
        q10 == y1 * (s2 - s3) + y2 * (s3 - s1) + y3 * (s1 - s2)
        q11 == s3 * (x2 - x1) + s2 * (x1 - x3) + s1 * (x3 - x2)
        row(idx) ==
            LET dx == X[idx][1] - x1
                dy == X[idx][2] - y1
            IN  <<[num |-> q00 * dx * n2 + q01 * dy * n1 + t1 * n1 * n2,
                   den |-> n1 * n2],
                  [num |-> q10 * dx * n2 + q11 * dy * n1 + s1 * n1 * n2,
                   den |-> n1 * n2]>>
    IN  IF picked.raised THEN picked
        ELSE Ok([idx \in 1..Len(ns) |-> row(idx)])

\* the matrices np.random.rand(4, 2) - 0.5 can produce, of which the model
\* keeps six (in quarters); no three of their rows lie on a line
XSamples ==
    {<<<<-2, -2>>, <<1, 0>>, x3, x4>> :
        x3 \in {<<0, 1>>, <<1, 1>>}, x4 \in {<<0, 1>>, <<1, 1>>, <<-1, 1>>}}

\* input lists: three anchors, two of them fixed, and a fourth entity
MdsInputs ==
    {<<Point(<<0, 0>>, "S"), Point(<<One, 0>>, "S"), Point(<<p3[1], p3[2]>>, "S"),
       Point(<<p4[1], p4[2]>>, t4)>> :
        p3 \in Coord \X Coord, p4 \in {One} \X Coord, t4 \in {"S", "A"}}

InitMds ==
    /\ points \in MdsInputs
    /\ args = [visibility |-> (MaxCoord + 1) * One, sigma |-> 0, iterations |-> 0,
               algorithm |-> "mds"]
    /\ rng \in {[stream |-> [k \in 1..StreamLen |-> 0], pos |-> 1, rand |-> X] :
                   X \in XSamples}
    /\ nodes = <<>>
    /\ pc = "start"
    /\ cur = 0
    /\ GENERATED_UIDS = {}
    /\ mstCalls = 0
    /\ log = <<>>
    /\ minimizer = 0
    /\ ret = NoCall
    /\ EdgeIdle
    /\ PointIdle

\* mds.solve(points, args)
MdsSolve ==
    /\ pc = "start"
    /\ \E us \in UidChoices(GENERATED_UIDS, Len(points)) :
          LET net == Network(points, args, us, rng)
              out == Mds_transform(net.nodes, rng.rand)
          IN  /\ nodes' = net.nodes
              /\ GENERATED_UIDS' = GENERATED_UIDS \cup {us[i] : i \in 1..Len(points)}
              /\ rng' = [net.rng EXCEPT !.rand = <<>>]
              /\ pc' = IF net.raised \/ out.raised THEN "raised" ELSE "returned"
              /\ ret' = IF net.raised
                        THEN [op |-> "solve", raised |-> TRUE,
                              val |-> "DisconnectedGraphError"]
                        ELSE [op |-> "solve", raised |-> out.raised, val |-> out.val]
    /\ UNCHANGED <<points, args, cur, mstCalls, log, minimizer, edgeVars, pointVars>>

NextMds == MdsSolve

SpecMds == InitMds /\ [][NextMds]_vars

----------------------------------------------------------------------------
(* Scenario 6: messages are delivered to one node, which drains its        *)
(* mailbox from time to time.                                              *)

\* a mailbox holds at most MaxQueue pairs when a delivery is made
MaxQueue == 3

\* the messages neighbours deliver
DrainMessages == {"data", "fwd"} \X (0..MaxVal)

InitDrain ==
    /\ points = <<Point(<<0>>, "A")>>
    /\ args = [algorithm |-> "recorder"]
    /\ nodes = <<RecorderNode(points[1], 11)>>
    /\ pc = "drain"
    /\ cur = 0
    /\ rng = 0
    /\ GENERATED_UIDS = {11}
    /\ mstCalls = 0
    /\ log = <<>>
    /\ minimizer = 0
    /\ ret = NoCall
    /\ EdgeIdle
    /\ PointIdle

\* a neighbour's edge.send(msg) reaches the node: _receive(msg, sender)
Receive ==
    /\ pc = "drain"
    /\ Len(nodes[1].message_queue) < MaxQueue
    /\ \E msg \in DrainMessages, sender \in {12} :
          nodes' = [nodes EXCEPT ![1] = NetworkNode_receive(@, msg, sender)]
    /\ ret' = [op |-> "_receive"]
    /\ UNCHANGED <<points, args, pc, cur, rng, GENERATED_UIDS, mstCalls, log,
                   minimizer, edgeVars, pointVars>>

\* node.handle_messages(); the record of calls is started afresh
Drain ==
    /\ pc = "drain"
    /\ LET h == NetworkNode_handle_messages(
                    [nodes[1] EXCEPT !.inst.handled = <<>>], args.algorithm)
       IN  /\ nodes' = [nodes EXCEPT ![1] = h.val]
           /\ ret' = [op |-> "handle_messages", raised |-> h.raised,
                      queued |-> nodes[1].message_queue]
    /\ UNCHANGED <<points, args, pc, cur, rng, GENERATED_UIDS, mstCalls, log,
                   minimizer, edgeVars, pointVars>>

NextDrain == Receive \/ Drain

SpecDrain == InitDrain /\ [][NextDrain]_vars

----------------------------------------------------------------------------
(* Scenario 7: solve(points, args) of algorithms/convexrelaxationasync.py. *)

RECURSIVE AttachAll(_, _, _, _)
\* the CRANetworkNode attributes of the nodes from the i-th on, each agent
\* drawing its random start vector
AttachAll(ns, i, spans, r) ==
    IF i > Len(ns) THEN [nodes |-> ns, rng |-> r]
    ELSE AttachAll([ns EXCEPT ![i] = CRANetworkNode(@, spans, r)], i + 1, spans,
                   IF ns[i].typ = "S" THEN r ELSE AdvanceUniform(r, Len(spans)))

RECURSIVE BroadcastAll(_, _)
\* for pt in network.points: pt.broadcast(pt.x), from the i-th node on
BroadcastAll(ns, i) ==
    IF i > Len(ns) THEN ns
    ELSE BroadcastAll(NetworkNode_broadcast(ns, i, ns[i].inst.x), i + 1)

RECURSIVE HandleAll(_, _, _)
\* pt.handle_messages() for the nodes `js`, in order
HandleAll(ns, js, algorithm) ==
    IF js = <<>> THEN Ok(ns)
    ELSE LET h == NetworkNode_handle_messages(ns[Head(js)], algorithm)
         IN  IF h.raised THEN h
             ELSE HandleAll([ns EXCEPT ![Head(js)] = h.val], Tail(js), algorithm)

\* lipschitz = 2 * maxdegree + maxanchors
Lipschitz(ns) ==
    2 * MaxSeq([i \in 1..Len(ns) |-> Len(ns[i].edges.keys)])
        + MaxSeq([i \in 1..Len(ns) |-> CRANetworkNode_num_anchor_neighbours(ns[i])])

\* the fractions random() returns, of which the model keeps the two ends
UniformSamples == {0, One}

InitAsync ==
    /\ points \in SolveInputs
    /\ \E env \in SolveNoise, J \in 0..MaxIter, u \in {[k \in 1..StreamLen |-> f] : f \in UniformSamples} :
          /\ args = [visibility |-> One + One \div 2, sigma |-> env.sigma,
                     iterations |-> J, algorithm |-> "convexrelaxationasync"]
          /\ rng = [stream |-> env.stream, pos |-> 1, unif |-> u, upos |-> 1,
                    choices |-> 0]
    /\ nodes = <<>>
    /\ pc = "start"
    /\ cur = 0
    /\ GENERATED_UIDS = {}
    /\ mstCalls = 0
    /\ log = <<>>
    /\ minimizer = 0
    /\ ret = NoCall
    /\ EdgeIdle
    /\ PointIdle

\* solve up to its loop: the spans, the network, the first exchange of
\* positions and the lipschitz constant
AsyncStart ==
    /\ pc = "start"
    /\ \E us \in UidChoices(GENERATED_UIDS, Len(points)) :
       \E spans \in {Spans(points)} :
       \E net \in {Network(points, args, us, rng)} :
       \E att \in {IF spans.raised \/ net.raised THEN net
                   ELSE AttachAll(net.nodes, 1, spans.val, net.rng)} :
       \E h \in {IF spans.raised \/ net.raised THEN spans
                 ELSE HandleAll(BroadcastAll(att.nodes, 1),
                                [i \in 1..Len(points) |-> i], args.algorithm)} :
          IF spans.raised \/ net.raised \/ h.raised
          THEN /\ pc' = "raised"
               /\ ret' = [op |-> "solve", raised |-> TRUE,
                          val |-> IF spans.raised THEN spans.val
                                  ELSE IF net.raised THEN "DisconnectedGraphError"
                                  ELSE h.val]
               /\ UNCHANGED <<nodes, cur, rng, GENERATED_UIDS>>
          ELSE /\ nodes' = h.val
               /\ rng' = att.rng
               /\ GENERATED_UIDS' = GENERATED_UIDS \cup {us[i] : i \in 1..Len(points)}
               /\ cur' = [iternum |-> 0, chosen |-> 0, lipschitz |-> Lipschitz(h.val)]
               /\ pc' = IF args.iterations = 0 THEN "return" ELSE "choose"
               /\ UNCHANGED ret
    /\ UNCHANGED <<points, args, mstCalls, log, minimizer, edgeVars, pointVars>>

\* chosen = random.choice(network.points), at the top of the loop body and
\* in the loop `while chosen.typ == "S"`; every call changes the state of
\* the random module
AsyncChoose(i) ==
    /\ pc = "choose"
    /\ i \in 1..Len(nodes)
    /\ cur' = [cur EXCEPT !.chosen = i]
    /\ rng' = [rng EXCEPT !.choices = 1 - @]
    /\ pc' = IF nodes[i].typ = "S" THEN "choose" ELSE "update"
    /\ UNCHANGED <<points, args, nodes, GENERATED_UIDS, mstCalls, log, minimizer, ret,
                   edgeVars, pointVars>>

\* chosen.update(lipschitz), then handle_messages() of every neighbour
AsyncUpdate ==
    /\ pc = "update"
    /\ \E u \in {CRANetworkNode_update(nodes, cur.chosen, cur.lipschitz, rng, cur.iternum)} :
       \E h \in {IF u.raised THEN u
                 ELSE HandleAll(u.val,
                                [n \in 1..Len(nodes[cur.chosen].edges.keys) |->
                                    DictValues(nodes[cur.chosen].edges)[n].attrs._dest],
                                args.algorithm)} :
           IF h.raised
           THEN /\ pc' = "raised"
                /\ ret' = [op |-> "solve", raised |-> TRUE, val |-> h.val]
                /\ UNCHANGED <<nodes, cur, rng>>
           ELSE /\ nodes' = h.val
                /\ rng' = AdvanceUniform(rng, nodes[cur.chosen].dim)
                /\ cur' = [cur EXCEPT !.iternum = @ + 1]
                /\ pc' = IF cur.iternum + 1 < args.iterations THEN "choose" ELSE "return"
                /\ UNCHANGED ret
    /\ UNCHANGED <<points, args, GENERATED_UIDS, mstCalls, log, minimizer, edgeVars,
                   pointVars>>

\* return [tuple(map(float, pt.x)) for pt in network.points]
AsyncReturn ==
    /\ pc = "return"
    /\ pc' = "returned"
    /\ ret' = [op |-> "solve", raised |-> FALSE,
               val |-> [i \in 1..Len(nodes) |-> nodes[i].inst.x.v]]
    /\ UNCHANGED <<points, args, nodes, cur, rng, GENERATED_UIDS, mstCalls, log,
                   minimizer, edgeVars, pointVars>>

\* random.choice returns an agent
AsyncChooseAgent == \E i \in 1..MaxNodes : AsyncChoose(i) /\ nodes[i].typ = "A"

NextAsync ==
    \/ AsyncStart
    \/ \E i \in 1..MaxNodes : AsyncChoose(i)
    \/ AsyncUpdate
    \/ AsyncReturn

SpecAsync == InitAsync /\ [][NextAsync]_vars

\* every statement of solve outside the choice loop completes (AsyncStart,
\* AsyncUpdate and AsyncReturn always have a successor, so the run does not
\* stay at their positions), the choice loop goes on calling random.choice,
\* and random.choice returns an agent again and again when the network has
\* one
FairAsync ==
    /\ SpecAsync
    /\ []<>(pc \notin {"start", "update", "return"})
    /\ WF_vars(\E i \in 1..MaxNodes : AsyncChoose(i))
    /\ SF_vars(AsyncChooseAgent)

----------------------------------------------------------------------------
(* Scenario 8: the non-cooperative least-squares solvers                   *)
(* algorithms/leastsquares.py, leastsquaresnetworked.py and                *)
(* leastsquaresdistrib.py, on one-dimensional inputs.                      *)

\* the largest number of entities of an input: an agent needs three
\* anchors besides itself
LsNodes == 4

LsAlgorithms == {"leastsquares", "leastsquaresnetworked", "leastsquaresdistrib"}

\* tuple(0 for __ in o): o is iterated, one zero per item
ZeroTuple(it) == IF it.raised THEN it ELSE Ok([k \in 1..Len(it.val) |-> 0])

\* tuple(float(x) for x in 0.5 * np.linalg.inv(A.T * A) * A.T * b) for
\* anchors at the coordinates a (one-dimensional) and distances d: A has
\* the rows a[1] - a[n], b the entries |a[1]|^2 - |a[n]|^2 - d[1]^2 + d[n]^2;
\* the quotient is kept as a fraction, and inv raises on a singular matrix
LeastSquares(a, d) ==
    LET A   == [n \in 1..(Len(a) - 1) |-> a[1][1] - a[n + 1][1]]
        b   == [n \in 1..(Len(a) - 1) |->
                   FxMul(a[1][1], a[1][1]) - FxMul(a[n + 1][1], a[n + 1][1])
                     - FxMul(d[1], d[1]) + FxMul(d[n + 1], d[n + 1])]
        AtA == SumSeq([n \in 1..Len(A) |-> FxMul(A[n], A[n])])
        Atb == SumSeq([n \in 1..Len(A) |-> FxMul(A[n], b[n])])
    IN  IF AtA = 0 THEN Raise("LinAlgError: Singular matrix")
        ELSE Ok(<<[num |-> Atb, den |-> 2 * AtA]>>)

RECURSIVE NoisyDistances(_, _, _, _)
\* [a.dist_noisy(point, sigma) for a in anchors]: one draw per anchor
NoisyDistances(anchors, point, sigma, r) ==
    IF anchors = <<>> THEN [val |-> <<>>, rng |-> r]
    ELSE LET rest == NoisyDistances(Tail(anchors), point, sigma, Advance(r))
         IN  [val |-> <<Point_dist_noisy(Head(anchors), AsArg(point), sigma,
                                         NextZ(r)).val>> \o rest.val,
              rng |-> rest.rng]

\* utils.collect_anchors_and_distances(point, points, visibility, sigma)
collect_anchors_and_distances(point, pts, visibility, sigma, r) ==
    LET InRange(p) == p.typ = "S" /\ Point__dist(p, AsArg(point)).val < visibility
        anchors    == SelectSeq(pts, InRange)
        distances  == NoisyDistances(anchors, point, sigma, r)
    IN  IF Len(anchors) < 3
        THEN [raised |-> TRUE, val |-> "ValueError: Not enough anchors", rng |-> r]
        ELSE [raised |-> FALSE, val |-> <<anchors, distances.val>>, rng |-> distances.rng]

\* the line print writes for an entity with too few anchors
Diagnostic(i) == [print |-> "has too few anchors. Cannot determine position.", node |-> i]

\* the body of the loop of leastsquares.solve for points[i]: the entry
\* appended to locations, the lines printed and the random module
leastsquares_locate(pts, i, a, r) ==
    LET point == pts[i]
        c     == collect_anchors_and_distances(point, pts, a.visibility, a.sigma, r)
    IN  IF point.typ = "S"
        THEN [res |-> Point_coords(point), printed |-> <<>>, rng |-> r]
        ELSE IF c.raised
        THEN [res |-> ZeroTuple(Point_iter(point)), printed |-> <<Diagnostic(i)>>,
              rng |-> c.rng]
        ELSE [res |-> LeastSquares([n \in 1..Len(c.val[1]) |-> c.val[1][n].coords],
                                   c.val[2]),
              printed |-> <<>>, rng |-> c.rng]

\* LSNode.solve of node i
LSNode_solve(ns, i) ==
    LET self    == ns[i]
        IsAnchor(e) == e.props.typ = "S"
        anchors == SelectSeq(DictValues(self.edges), IsAnchor)
    IN  IF self.typ = "S" THEN [res |-> Point_coords(self), printed |-> <<>>]
        ELSE IF Len(anchors) < 3
        THEN [res |-> ZeroTuple(Point_iter(self)), printed |-> <<Diagnostic(i)>>]
        ELSE IF \E n \in 1..Len(anchors) :
                   NetworkEdge_getattr(anchors[n], "dist").kind = "raise"
        THEN [res |-> Raise("ValueError"), printed |-> <<>>]
        ELSE [res |-> LeastSquares(
                          [n \in 1..Len(anchors) |-> ns[anchors[n].props.pt].coords],
                          [n \in 1..Len(anchors) |-> anchors[n].props.dist]),
              printed |-> <<>>]

\* NetworkPoint.__init__(point): super().__init__(*point.coords, typ=point.typ);
\* an entry of distances is <<>> for None and <<d>> for the number d
NetworkPoint(point) ==
    LET c == Point_coords(point)
    IN  IF c.raised THEN c
        ELSE Ok([coords |-> c.val, typ |-> point.typ, dim |-> Len(c.val),
                 neighbours |-> <<>>, distances |-> <<>>, message_queue |-> <<>>])

\* NetworkPoint.add_neighbours(points, visibility) of the i-th point: the
\* points whose dist to it is below visibility, itself left out
NetworkPoint_add_neighbours(ns, i, visibility) ==
    LET d == [j \in 1..Len(ns) |-> Point_dist(ns[j], AsArg(ns[i]))]
        Near(j) == d[j].val < visibility /\ j # i
        near == SelectSeq([j \in 1..Len(ns) |-> j], Near)
    IN  IF \E j \in 1..Len(ns) : d[j].raised
        THEN Raise("ValueError: Attempt to acess coords of agent")
        ELSE Ok([ns EXCEPT ![i].neighbours = near,
                           ![i].distances = [n \in 1..Len(near) |-> <<>>]])

\* NetworkPoint.set_distance(to, distance) of the j-th point
NetworkPoint_set_distance(ns, j, to, distance) ==
    [ns EXCEPT ![j].distances =
        [n \in 1..Len(@) |-> IF ns[j].neighbours[n] = to THEN <<distance>> ELSE @[n]]]

RECURSIVE NetworkPoint_measure_distances(_, _, _, _, _)
\* NetworkPoint.measure_distances(sigma) of the i-th point, from its k-th
\* neighbour on
NetworkPoint_measure_distances(ns, i, k, sigma, r) ==
    IF k > Len(ns[i].neighbours) THEN [nodes |-> ns, rng |-> r]
    ELSE IF ns[i].distances[k] # <<>>
    THEN NetworkPoint_measure_distances(ns, i, k + 1, sigma, r)
    ELSE LET j == ns[i].neighbours[k]
             d == Point_dist_noisy(ns[i], AsArg(ns[j]), sigma, NextZ(r)).val
         IN  NetworkPoint_measure_distances(
                 NetworkPoint_set_distance([ns EXCEPT ![i].distances[k] = <<d>>], j, i, d),
                 i, k + 1, sigma, Advance(r))

\* NetworkPoint.__str__: "NP(" + ", ".join(map(str, self.coords)) + ")"
NetworkPoint_str(self) ==
    LET c == Point_coords(self) IN IF c.raised THEN c ELSE Ok(<<"NP", c.val>>)

\* LSNetworkPoint.get_location of the i-th point; the name `point` read
\* in the sentinel branch is bound nowhere
LSNetworkPoint_get_location(ns, i) ==
    LET self == ns[i]
        IsAnchor(j) == ns[j].typ = "S"
        IsAnchorAt(n) == ns[self.neighbours[n]].typ = "S"
        anchors   == SelectSeq(self.neighbours, IsAnchor)
        distances == [m \in 1..Len(anchors) |->
                        self.distances[SelectSeq([n \in 1..Len(self.neighbours) |-> n],
                                                 IsAnchorAt)[m]][1]]
    IN  IF self.typ = "S" THEN [res |-> Point_coords(self), printed |-> <<>>]
        ELSE IF Len(anchors) < 3
        THEN IF NetworkPoint_str(self).raised
             THEN [res |-> NetworkPoint_str(self), printed |-> <<>>]
             ELSE [res |-> Raise("NameError: name 'point' is not defined"),
                   printed |-> <<Diagnostic(i)>>]
        ELSE [res |-> LeastSquares([m \in 1..Len(anchors) |-> ns[anchors[m]].coords],
                                   distances),
              printed |-> <<>>]

RECURSIVE ConvertAll(_, _)
\* list(map(LSNetworkPoint, points))
ConvertAll(pts, done) ==
    IF Len(done) = Len(pts) THEN Ok(done)
    ELSE LET p == NetworkPoint(pts[Len(done) + 1])
         IN  IF p.raised THEN p ELSE ConvertAll(pts, Append(done, p.val))

RECURSIVE AddNeighboursAll(_, _, _)
\* for pt in points: pt.add_neighbours(points, args.visibility)
AddNeighboursAll(ns, i, visibility) ==
    IF i > Len(ns) THEN Ok(ns)
    ELSE LET n == NetworkPoint_add_neighbours(ns, i, visibility)
         IN  IF n.raised THEN n ELSE AddNeighboursAll(n.val, i + 1, visibility)

RECURSIVE MeasureAll(_, _, _, _)
\* for pt in points: pt.measure_distances(args.sigma)
MeasureAll(ns, i, sigma, r) ==
    IF i > Len(ns) THEN [nodes |-> ns, rng |-> r]
    ELSE LET m == NetworkPoint_measure_distances(ns, i, 1, sigma, r)
         IN  MeasureAll(m.nodes, i + 1, sigma, m.rng)

\* the inputs: up to LsNodes entities on a line
LsInputs ==
    {[i \in 1..n |-> Point(<<c[i]>>, ty[i])] :
        n \in 1..LsNodes,
        c \in {f \in [1..LsNodes -> Coord] :
                  \A i \in 1..(LsNodes - 1) : f[i] <= f[i + 1]},
        ty \in [1..LsNodes -> {"S", "A"}]}

InitLs ==
    /\ points \in LsInputs
    /\ \E v \in Visibilities, env \in SolveNoise, algorithm \in LsAlgorithms :
          /\ args = [visibility |-> v, sigma |-> env.sigma, iterations |-> 0,
                     algorithm |-> algorithm]
          /\ rng = [stream |-> env.stream, pos |-> 1]
    /\ nodes = <<>>
    /\ pc = "start"
    /\ cur = 0
    /\ GENERATED_UIDS = {}
    /\ mstCalls = 0
    /\ log = <<>>
    /\ minimizer = 0
    /\ ret = NoCall
    /\ EdgeIdle
    /\ PointIdle

\* solve up to the first entity: nothing in leastsquares, the Network in
\* leastsquaresnetworked, the conversion, add_neighbours and
\* measure_distances in leastsquaresdistrib
LsStart ==
    /\ pc = "start"
    /\ \E us \in {[i \in 1..Len(points) |-> 10 + i]} :
       \E built \in {CASE args.algorithm = "leastsquares" ->
                            [raised |-> FALSE, nodes |-> <<>>, rng |-> rng, uids |-> {}]
                       [] args.algorithm = "leastsquaresnetworked" ->
                            LET net == Network(points, args, us, rng)
                            IN  [raised |-> net.raised, val |-> "DisconnectedGraphError",
                                 nodes |-> net.nodes, rng |-> net.rng,
                                 uids |-> {us[i] : i \in 1..Len(points)}]
                       [] OTHER ->
                            LET conv == ConvertAll(points, <<>>)
                                nb   == AddNeighboursAll(conv.val, 1, args.visibility)
                                m    == MeasureAll(nb.val, 1, args.sigma, rng)
                            IN  IF conv.raised
                                THEN [raised |-> TRUE, val |-> conv.val, uids |-> {}]
                                ELSE IF nb.raised
                                THEN [raised |-> TRUE, val |-> nb.val, uids |-> {}]
                                ELSE [raised |-> FALSE, nodes |-> m.nodes,
                                      rng |-> m.rng, uids |-> {}]} :
          /\ GENERATED_UIDS' = built.uids
          /\ IF built.raised
             THEN /\ pc' = "raised"
                  /\ ret' = [op |-> "solve", raised |-> TRUE, val |-> built.val]
                  /\ UNCHANGED <<nodes, cur, rng>>
             ELSE /\ nodes' = built.nodes
                  /\ rng' = built.rng
                  /\ cur' = [idx |-> 1, locations |-> <<>>]
                  /\ pc' = IF Len(points) = 0 THEN "return" ELSE "locate"
                  /\ UNCHANGED ret
    /\ UNCHANGED <<points, args, mstCalls, log, minimizer, edgeVars, pointVars>>

\* the next entity's location: one pass of the loop of leastsquares.solve,
\* one call of LSNode.solve or of LSNetworkPoint.get_location
LsLocate ==
    /\ pc = "locate"
    /\ \E l \in {CASE args.algorithm = "leastsquares" ->
                        leastsquares_locate(points, cur.idx, args, rng)
                   [] args.algorithm = "leastsquaresnetworked" ->
                        LSNode_solve(nodes, cur.idx) @@ [rng |-> rng]
                   [] OTHER ->
                        LSNetworkPoint_get_location(nodes, cur.idx) @@ [rng |-> rng]} :
          /\ log' = log \o l.printed
          /\ rng' = l.rng
          /\ IF l.res.raised
             THEN /\ pc' = "raised"
                  /\ ret' = [op |-> "solve", raised |-> TRUE, val |-> l.res.val]
                  /\ UNCHANGED cur
             ELSE /\ cur' = [idx |-> cur.idx + 1,
                             locations |-> Append(cur.locations, l.res.val)]
                  /\ pc' = IF cur.idx = Len(points) THEN "return" ELSE "locate"
                  /\ UNCHANGED ret
    /\ UNCHANGED <<points, args, nodes, GENERATED_UIDS, mstCalls, minimizer, edgeVars,
                   pointVars>>

\* return locations
LsReturn ==
    /\ pc = "return"
    /\ pc' = "returned"
    /\ ret' = [op |-> "solve", raised |-> FALSE, val |-> cur.locations]
    /\ UNCHANGED <<points, args, nodes, cur, rng, GENERATED_UIDS, mstCalls, log,
                   minimizer, edgeVars, pointVars>>

NextLs == LsStart \/ LsLocate \/ LsReturn

SpecLs == InitLs /\ [][NextLs]_vars

----------------------------------------------------------------------------
(* Scenario 9: one process that builds several networks, node by node      *)
(* (NetworkNode.__init__ calls utils.generate_uid), and delivers messages. *)

\* the number of nodes the process creates
MaxCreated == 4

InitUid ==
    /\ nodes = <<>>
    /\ GENERATED_UIDS = {}
    /\ log = <<>>
    /\ cur = 1
    /\ pc = "process"
    /\ points = <<>>
    /\ args = 0
    /\ rng = 0
    /\ mstCalls = 0
    /\ minimizer = 0
    /\ ret = NoCall
    /\ EdgeIdle
    /\ PointIdle

\* point_cls(p) in Network.__init__ of the current network: the node is
\* created with the uid generate_uid() returns, which is added to
\* GENERATED_UIDS; log keeps the network and the uid of every creation
NewNode(typ) ==
    /\ pc = "process"
    /\ Len(nodes) < MaxCreated
    /\ GENERATED_UIDS # UidPool
    /\ \E s \in generate_uid(GENERATED_UIDS) :
          /\ GENERATED_UIDS' = GENERATED_UIDS \cup {s}
          /\ nodes' = Append(nodes, NetworkNode(Point(<<0>>, typ), s))
          /\ log' = Append(log, [net |-> cur, uid |-> s])
    /\ UNCHANGED <<points, args, pc, cur, rng, mstCalls, minimizer, ret, edgeVars,
                   pointVars>>

\* the next Network(...) of the process begins
NewNetwork ==
    /\ pc = "process"
    /\ log # <<>> /\ log[Len(log)].net = cur
    /\ cur' = cur + 1
    /\ UNCHANGED <<points, args, nodes, pc, rng, GENERATED_UIDS, mstCalls, log,
                   minimizer, ret, edgeVars, pointVars>>

\* a node of the process is sent a message by another one
Deliver(i, j) ==
    /\ pc = "process"
    /\ i \in 1..Len(nodes) /\ j \in 1..Len(nodes) /\ i # j
    /\ nodes[i].message_queue = <<>>
    /\ nodes' = [nodes EXCEPT ![i] = NetworkNode_receive(@, 0, nodes[j].uid)]
    /\ UNCHANGED <<points, args, pc, cur, rng, GENERATED_UIDS, mstCalls, log, minimizer,
                   ret, edgeVars, pointVars>>

NextUid ==
    \/ \E typ \in {"S", "A"} : NewNode(typ)
    \/ NewNetwork
    \/ \E j \in 2..MaxCreated : Deliver(1, j)

SpecUid == InitUid /\ [][NextUid]_vars

----------------------------------------------------------------------------
(* Graph notions used to state the properties.                             *)

RECURSIVE ReachSet(_, _)
\* the nodes reachable from the set S along the relation R
ReachSet(R, S) ==
    LET S2 == S \cup {r[2] : r \in {q \in R : q[1] \in S}}
    IN  IF S2 = S THEN S ELSE ReachSet(R, S2)

\* the visibility graph of the input: i sees j iff their squared distance
\* is below the square of the radius
VisibilityGraph(pts, visibility) ==
    {h \in (1..Len(pts)) \X (1..Len(pts)) :
        /\ h[1] # h[2]
        /\ SumSeq([k \in 1..Len(pts[h[1]].coords) |->
                     (pts[h[1]].coords[k] - pts[h[2]].coords[k])
                       * (pts[h[1]].coords[k] - pts[h[2]].coords[k])])
             < visibility * visibility}

\* the connected components of an undirected graph on 1..n
Components(R, n) == {ReachSet(R, {i}) : i \in 1..n}

\* the directed edges the nodes own
EdgeGraph(ns) ==
    {h \in (1..Len(ns)) \X (1..Len(ns)) :
        \E u \in DOMAIN ns[h[1]].edges.val : ns[h[1]].edges.val[u].attrs._dest = h[2]}

\* _measure_distances has run to its end (in the constructor or in mst)
Measured == pc \in {"check", "built", "raised", "mst_done", "mst_raised"}

----------------------------------------------------------------------------
(* Properties.                                                             *)

\* C1: once _measure_distances has completed, in the constructor and again
\* in mst(), for every directed edge A->B the reverse edge B->A exists and
\* both hold the same dist
C1_SyncDist ==
    Measured =>
        \A i \in 1..Len(nodes) : \A u \in DOMAIN nodes[i].edges.val :
            LET e == nodes[i].edges.val[u]
                j == e.attrs._dest
            IN  /\ nodes[i].uid \in DOMAIN nodes[j].edges.val
                /\ "dist" \in DOMAIN e.props
                /\ "dist" \in DOMAIN nodes[j].edges.val[nodes[i].uid].props
                /\ e.props.dist = nodes[j].edges.val[nodes[i].uid].props.dist

\* C1 witness: mst() has completed on a noisy network of three nodes in
\* which some measured distance differs from the true one
C1_Witness ==
    /\ pc = "mst_done"
    /\ Len(nodes) = 3
    /\ \E i \in 1..Len(nodes) : \E u \in DOMAIN nodes[i].edges.val :
          LET e == nodes[i].edges.val[u]
          IN  e.props.dist # Point__dist(nodes[i], AsArg(nodes[e.attrs._dest])).val

\* C3: with check_disconnect=True the constructor raises iff the
\* visibility graph of the input has more than one connected component,
\* and when it does not raise every node reaches every other node along
\* the edges built
C3_DisconnectIff ==
    (ret.op = "Network" /\ ret.check_disconnect) =>
        /\ ret.raised <=>
             Cardinality(Components(VisibilityGraph(points, args.visibility),
                                    Len(points))) > 1
        /\ ~ret.raised =>
             \A i \in 1..Len(nodes) : ReachSet(EdgeGraph(nodes), {i}) = 1..Len(nodes)

\* C3 witness: the constructor raised on three nodes of which the first
\* has a neighbour
C3_Witness ==
    /\ ret.op = "Network" /\ ret.check_disconnect /\ ret.raised
    /\ Len(nodes) = 3
    /\ nodes[1].edges.keys # <<>>

\* C6: a read of a name that was never assigned on the edge raised the
\* missing-property error
C6_UnsetReadRaises ==
    (ret.op = "get" /\ ~ret.wasSet) => ret.res.kind = "raise"

\* C7: a property read right after it was set returned the value set
C7_RoundTrip ==
    ret.op = "setget" => (ret.res.kind = "value" /\ ret.res.val = ret.arg)

\* the value an accessor computes from the coordinates c (and those of the
\* argument oc)
Expected(acc, c, oc) ==
    CASE acc \in {"coords", "iter"} -> c
      [] acc = "abssq" -> SumSeq([k \in 1..Len(c) |-> c[k] * c[k]])
      [] acc = "abs" -> Sqrt(SumSeq([k \in 1..Len(c) |-> c[k] * c[k]]))
      [] acc \in {"distsq", "_distsq"} ->
            SumSeq([k \in 1..Min(Len(c), Len(oc)) |-> (c[k] - oc[k]) * (c[k] - oc[k])])
      [] acc \in {"dist", "_dist"} ->
            Sqrt(SumSeq([k \in 1..Min(Len(c), Len(oc)) |->
                            (c[k] - oc[k]) * (c[k] - oc[k])]))

\* the coordinates of the argument
ArgCoords == IF other.kind = "point" THEN other.p.coords ELSE other.list

\* the argument is an agent Point: iterating it fails
ArgUnreadable == other.kind = "point" /\ other.p.typ # "S"

\* C8: every public accessor fails on an agent; on an anchor coords and
\* iteration return the constructed coordinates, abssq and abs the values
\* computed from them, distsq and dist too unless the argument is itself an
\* agent Point; the privileged routines succeed on every entity
C8_CheatGuard ==
    /\ ret.op \in Accessors =>
          /\ pt.typ # "S" => ret.res.raised
          /\ (pt.typ = "S" /\ ret.op \in {"coords", "iter", "abssq", "abs"}) =>
                (~ret.res.raised /\ ret.res.val = Expected(ret.op, pt.coords, <<>>))
          /\ (pt.typ = "S" /\ ret.op \in {"distsq", "dist"}) =>
                IF ArgUnreadable THEN ret.res.raised
                ELSE (~ret.res.raised
                        /\ ret.res.val = Expected(ret.op, pt.coords, ArgCoords))
    /\ ret.op \in {"_distsq", "_dist"} =>
          (~ret.res.raised /\ ret.res.val = Expected(ret.op, pt.coords, ArgCoords))
    /\ ret.op = "dist_noisy" => ~ret.res.raised

\* C8 witness: dist was refused on an agent whose argument is an anchor
C8_Witness ==
    /\ ret.op = "dist" /\ pt.typ = "A" /\ ret.res.raised
    /\ other.kind = "point" /\ other.p.typ = "S"

\* the phase of the round a hook belongs to: 1 compute/send, 2 deliver,
\* 3 finalize
Phase(hook) ==
    CASE hook \in {"postinit", "build_messages", "first_iteration_start",
                   "iteration_begin", "iteration_start"} -> 1
      [] hook = "handle_messages" -> 2
      [] OTHER -> 3

\* the calls of `hook` on `node` in `round` logged before position q
CallsBefore(q, hook, node, round) ==
    {p \in 1..(q - 1) : log[p] = [hook |-> hook, node |-> node, round |-> round]}

\* every node has been through every hook of `round` whose phase is in
\* `phases` before position q of the log
AllDone(q, round, phases) ==
    \A i \in 1..Len(nodes) :
        \A k \in DOMAIN Hooks(args.algorithm, round) :
            Phase(Hooks(args.algorithm, round)[k]) \in phases =>
                CallsBefore(q, Hooks(args.algorithm, round)[k], i, round) # {}

\* C2: in the log of a solve run (admm and admmh), a handle_messages call
\* of a round comes after the compute/send hooks of that round on every
\* node, a finalize hook after the handle_messages of every node, a hook
\* of round r + 1 after every hook of round r, no hook is called twice on
\* a node in a round, and when solve returns the log holds round 0 and
\* exactly args.iterations further rounds of the three phases
C2_PhaseBarrier ==
    pc \in {"solve", "returned", "raised"} =>
        /\ \A q \in 1..Len(log) :
              /\ log[q].round \in 0..args.iterations
              /\ CallsBefore(q, log[q].hook, log[q].node, log[q].round) = {}
              /\ Phase(log[q].hook) = 2 => AllDone(q, log[q].round, {1})
              /\ Phase(log[q].hook) = 3 => AllDone(q, log[q].round, {1, 2})
              /\ log[q].round > 0 => AllDone(q, log[q].round - 1, {1, 2, 3})
        /\ pc = "returned" =>
              /\ \A r \in 0..args.iterations : AllDone(Len(log) + 1, r, {1, 2, 3})
              /\ Len(log) = Len(nodes) * (Len(Hooks(args.algorithm, 0))
                                + 3 * args.iterations)

\* C2 witness: solve returned after two rounds beyond round 0 on three nodes
C2_Witness ==
    /\ pc = "returned"
    /\ args.iterations = 2
    /\ Len(nodes) = 3
    /\ log[Len(log)] = [hook |-> "iteration_end", node |-> 3, round |-> 2]

\* C4: every Hybrid node's switched flag is False when the run starts, and
\* no step turns a True flag back to False
C4_SwitchedOnce ==
    /\ args.algorithm = "admmh" =>
          \A i \in 1..Len(nodes) : ~nodes[i].inst.switched
    /\ [][args.algorithm = "admmh" =>
             \A i \in 1..Len(nodes) :
                 nodes[i].inst.switched => nodes'[i].inst.switched]_vars

\* C4 witness: a node switched in one round (its neighbour has stored the
\* c it announced) and went through a later finalize hook switched (its
\* next announcement waits in the neighbour's mailbox), while another node
\* has not switched
C4_Witness ==
    /\ args.algorithm = "admmh"
    /\ \E i, j, k \in 1..Len(nodes) :
          /\ nodes[i].inst.switched
          /\ ~nodes[k].inst.switched
          /\ nodes[i].uid \in DOMAIN nodes[j].edges.val
          /\ nodes[j].edges.val[nodes[i].uid].props.c = ZETA_C
          /\ \E n \in 1..Len(nodes[j].message_queue) :
                /\ nodes[j].message_queue[n][1][1] = 3
                /\ nodes[j].message_queue[n][2] = nodes[i].uid

\* the entries a step appended to the mailbox of node j
Appended(j) ==
    SubSeq(nodes'[j].message_queue, Len(nodes[j].message_queue) + 1,
           Len(nodes'[j].message_queue))

\* the number of edge.send calls the hook at the current position makes
\* towards node j
Sends(j) ==
    LET hook == Hooks(args.algorithm, cur.round)[cur.loop]
    IN  IF nodes[j].uid \notin DOMAIN nodes[cur.idx].edges.val THEN 0
        ELSE IF hook \in {"build_messages", "first_iteration_start",
                          "iteration_begin", "iteration_start"} THEN 2
        ELSE IF args.algorithm = "admmh" /\ hook = "iteration_end"
                  /\ cur.round > 0 /\ nodes'[cur.idx].inst.switched THEN 1
        ELSE 0

\* C10: a hook call on one node changes of every other node nothing but
\* the mailbox, to which it appends one entry per send, each tagged with
\* the caller's uid; fields and edge properties of a node change only in
\* its own hooks (for received data: its own handle_messages)
C10_SendFrame ==
    [][(pc = "solve" /\ pc' = "solve" /\ cur.loop > 0) =>
          \A j \in 1..Len(nodes) : j # cur.idx =>
              /\ Len(nodes'[j].message_queue) =
                     Len(nodes[j].message_queue) + Sends(j)
              /\ nodes'[j] = [nodes[j] EXCEPT !.message_queue = @ \o Appended(j)]
              /\ \A n \in 1..Len(Appended(j)) :
                     /\ Appended(j)[n][2] = nodes[cur.idx].uid
                     /\ Appended(j)[n][1][1] \in {1, 2} =>
                            Appended(j)[n][1][2] \in
                                {nodes'[cur.idx].edges.val[nodes[j].uid].props.m1s,
                                 nodes'[cur.idx].edges.val[nodes[j].uid].props.m2s}]_vars

\* C10 witness: a node's mailbox holds a first message from a neighbour
\* and the node's edge to that neighbour has no received value yet
C10_Witness ==
    /\ pc = "solve"
    /\ \E j \in 1..Len(nodes) : \E n \in 1..Len(nodes[j].message_queue) :
          /\ nodes[j].message_queue[n][1][1] = 1
          /\ "m1r" \notin DOMAIN nodes[j].edges.val[nodes[j].message_queue[n][2]].props

\* the names under which nodes and edges hold matrices
MatrixNames == {"x", "y", "lam1", "lam2", "m1s", "m2s", "m1r", "m2r", "z1", "z2"}

\* the identities of the matrix objects reachable from a node: its own
\* fields and the properties of its edges
ObjectIds(node) ==
    {node.inst[f].id : f \in DOMAIN node.inst \cap MatrixNames}
        \cup UNION {{node.edges.val[u].props[f].id :
                        f \in DOMAIN node.edges.val[u].props \cap MatrixNames} :
                    u \in DOMAIN node.edges.val}

\* the node with the uid u
NodeOf(u) == CHOOSE i \in 1..Len(nodes) : nodes[i].uid = u

\* C9: no matrix in a node's mailbox, and no matrix handle stored as
\* received on an edge, is an object reachable from the state of the node
\* that sent it
C9_MessagesAreCopies ==
    pc \in {"solve", "returned"} =>
        \A j \in 1..Len(nodes) :
            /\ \A n \in 1..Len(nodes[j].message_queue) :
                  LET m == nodes[j].message_queue[n]
                  IN  m[1][1] \in {1, 2} =>
                          m[1][2].id \notin ObjectIds(nodes[NodeOf(m[2])])
            /\ \A u \in DOMAIN nodes[j].edges.val :
                  \A f \in DOMAIN nodes[j].edges.val[u].props \cap {"m1r", "m2r"} :
                      nodes[j].edges.val[u].props[f].id \notin ObjectIds(nodes[NodeOf(u)])

\* C5: when solve returns, the list has one entry per input entity and
\* the entry of every anchor is that anchor's input coordinates
C5_AnchorsEchoed ==
    (pc = "returned" /\ ret.op = "solve") =>
        /\ Len(ret.val) = Len(points)
        /\ \A i \in 1..Len(points) : points[i].typ = "S" =>
              IF args.algorithm = "mds"
              THEN \A k \in 1..Len(points[i].coords) :
                      /\ ret.val[i][k].den # 0
                      /\ ret.val[i][k].num = points[i].coords[k] * ret.val[i][k].den
              ELSE ret.val[i] = points[i].coords

RECURSIVE Flatten(_)
\* the concatenation of a sequence of sequences
Flatten(ss) == IF ss = <<>> THEN <<>> ELSE Head(ss) \o Flatten(Tail(ss))

\* C11: when handle_messages returns, the mailbox is empty and the calls
\* of handle made are the pairs that were queued, oldest first, followed by
\* the pairs enqueued on the node during the drain, in the order of the
\* calls that enqueued them: every pair once
C11_DrainFifo ==
    (ret.op = "handle_messages" /\ ~ret.raised) =>
        LET H == nodes[1].inst.handled
        IN  /\ nodes[1].message_queue = <<>>
            /\ H = ret.queued
                     \o Flatten([k \in 1..Len(H) |-> Spawned(nodes[1], H[k][1])])

\* C11 witness: a drain of three queued pairs, the second of which made
\* handle enqueue a further pair, returned
C11_Witness ==
    /\ ret.op = "handle_messages" /\ ~ret.raised
    /\ Len(ret.queued) = 3
    /\ ret.queued[1] # ret.queued[3]
    /\ ret.queued[2][1] = <<"fwd", 1>>
    /\ Len(nodes[1].inst.handled) = 4

\* the number of edge objects the nodes hold
EdgeCount(ns) == SumSeq([i \in 1..Len(ns) |-> Len(ns[i].edges.keys)])

\* C12: mst() on a network in which every node reaches every other one
\* completes and leaves 2(N-1) directed edges, each with its reverse, along
\* which every node still reaches every other one
C12_MstTree ==
    (ret.op = "mst"
        /\ \A i \in 1..Len(nodes) :
              ReachSet(EdgeGraph(ret.before), {i}) = 1..Len(nodes)) =>
        /\ ~ret.raised
        /\ EdgeCount(nodes) = 2 * (Len(nodes) - 1)
        /\ Cardinality(EdgeGraph(nodes)) = 2 * (Len(nodes) - 1)
        /\ \A h \in EdgeGraph(nodes) : <<h[2], h[1]>> \in EdgeGraph(nodes)
        /\ \A i \in 1..Len(nodes) :
              ReachSet(EdgeGraph(nodes), {i}) = 1..Len(nodes)

\* C12 witness: mst() has completed on three nodes that all saw each other
C12_Witness ==
    /\ pc = "mst_done"
    /\ Len(nodes) = 3
    /\ EdgeCount(ret.before) = 6
    /\ EdgeCount(nodes) = 4

\* C13: once the constructor has built the edges (and before any mst()),
\* node i holds an edge to node j, keyed by j's uid, exactly when i # j and
\* the squared distance of the two inputs is below visibility squared; it
\* holds no other edge; the edge i->j has source i, destination j and its
\* own bag, which carries j's role; so i->j exists iff j->i does
C13_EdgesIffVisible ==
    (pc \in {"measure", "check", "built", "raised"} /\ mstCalls = 0) =>
        /\ \A i, j \in 1..Len(nodes) :
              /\ <<i, j>> \in VisibilityGraph(points, args.visibility)
                    <=> nodes[j].uid \in DOMAIN nodes[i].edges.val
              /\ nodes[j].uid \in DOMAIN nodes[i].edges.val =>
                    LET e == nodes[i].edges.val[nodes[j].uid]
                    IN  /\ i # j
                        /\ e.attrs._source = i
                        /\ e.attrs._dest = j
                        /\ e.props.typ = points[j].typ
                        /\ nodes[i].uid \in DOMAIN nodes[j].edges.val
        /\ EdgeCount(nodes) = Cardinality(VisibilityGraph(points, args.visibility))
        /\ \A i \in 1..Len(nodes) :
              DOMAIN nodes[i].edges.val \subseteq {nodes[j].uid : j \in 1..Len(nodes)}

\* C13 witness: a network of three nodes was built in which the first
\* node sees the second, an entity of the other role, but not the third
C13_Witness ==
    /\ pc = "built"
    /\ Len(nodes) = 3
    /\ nodes[2].uid \in DOMAIN nodes[1].edges.val
    /\ nodes[3].uid \notin DOMAIN nodes[1].edges.val
    /\ nodes[1].typ # nodes[2].typ

\* C14: every run of the asynchronous-update solve comes to its end: it
\* returns (or raises)
C14_SolveTerminates == <>(pc \in {"returned", "raised"})

\* the anchors within the visibility radius of the i-th input
AnchorsInRange(i) ==
    {j \in 1..Len(points) :
        /\ points[j].typ = "S"
        /\ Point__dist(points[j], AsArg(points[i])).val < args.visibility}

\* the i-th input is an agent with fewer than three anchors in range
FewAnchors(i) == points[i].typ = "A" /\ Cardinality(AnchorsInRange(i)) < 3

\* C15: a run of a least-squares solver on a connected input whose agents
\* (at least one) all have fewer than three anchors in range returns; the
\* list has one entry per entity, the zero tuple for every agent and the
\* input coordinates for every anchor, and one diagnostic was printed for
\* every agent
C15_FewAnchorsSentinel ==
    (/\ pc \in {"returned", "raised"}
     /\ Cardinality(Components(VisibilityGraph(points, args.visibility),
                               Len(points))) = 1
     /\ \E i \in 1..Len(points) : points[i].typ = "A"
     /\ \A i \in 1..Len(points) : points[i].typ = "A" => FewAnchors(i)) =>
        /\ ~ret.raised
        /\ Len(ret.val) = Len(points)
        /\ \A i \in 1..Len(points) :
              IF FewAnchors(i)
              THEN /\ ret.val[i] = Zeros(points[i].dim)
                   /\ \E q \in 1..Len(log) : log[q] = Diagnostic(i)
              ELSE ret.val[i] = points[i].coords

\* C16: the nodes created in one process, in the same network or in
\* different ones, have pairwise different uids; no step changes the uid
\* of a node, and the uid given to a new node was never issued before
C16_UidsUnique ==
    /\ [](\A i, j \in 1..Len(nodes) : i # j => nodes[i].uid # nodes[j].uid)
    /\ [][/\ \A i \in 1..Len(nodes) : nodes'[i].uid = nodes[i].uid
          /\ GENERATED_UIDS \subseteq GENERATED_UIDS'
          /\ Len(nodes') > Len(nodes) =>
                /\ nodes'[Len(nodes')].uid \notin GENERATED_UIDS
                /\ \A q \in 1..Len(log) : log[q].uid # nodes'[Len(nodes')].uid]_vars

\* C16 witness: the process has created four nodes in three networks, two
\* of them in the same network, and the first node has been sent a message
C16_Witness ==
    /\ pc = "process"
    /\ Len(nodes) = MaxCreated
    /\ cur = 3
    /\ log[1].net = log[2].net
    /\ log[3].net # log[4].net
    /\ nodes[1].message_queue # <<>>

\* the uids of the nodes the i-th node sees, in the order of the input:
\* the order _add_neighbours computes at construction
ConstructionOrder(i) ==
    LET js == SelectSeq([j \in 1..Len(nodes) |-> j],
                        LAMBDA j : <<i, j>> \in VisibilityGraph(points, args.visibility))
    IN  [n \in 1..Len(js) |-> nodes[js[n]].uid]

\* the uids edges_ordered() of the i-th node follows
OrderOf(ns, i) ==
    [n \in 1..Len(ns[i].order) |->
        ns[NetworkNode_edges_ordered(ns[i])[n].attrs._dest].uid]

\* C17 as stated: once the graph is built, the order every node's
\* edges_ordered() follows is the one computed at construction, after
\* mst() too
C17_OrderFixed ==
    pc # "start" =>
        \A i \in 1..Len(nodes) :
            /\ nodes[i].order = ConstructionOrder(i)
            /\ OrderOf(nodes, i) = ConstructionOrder(i)

\* C17 amended: the order is the one computed at construction until mst()
\* runs; mst() recomputes it from the rebuilt edge map; it always lists
\* the keys of the node's edge map in insertion order, and no step other
\* than the rebuilding step of mst() changes it
C17_OrderFixedUntilMst ==
    /\ [](pc # "start" =>
            \A i \in 1..Len(nodes) :
                /\ nodes[i].order = nodes[i].edges.keys
                /\ OrderOf(nodes, i) = nodes[i].order
                /\ mstCalls = 0 => nodes[i].order = ConstructionOrder(i))
    /\ [][(pc # "start" /\ mstCalls' = mstCalls) =>
             \A i \in 1..Len(nodes) : nodes'[i].order = nodes[i].order]_vars

\* C17 witness: mst() has completed on three nodes and the order of the
\* first node is no longer the one computed at construction
C17_Witness ==
    /\ pc = "mst_done"
    /\ Len(nodes) = 3
    /\ nodes[1].order # ConstructionOrder(1)
    /\ nodes[1].order # <<>>

\* C18: in a network built (or rebuilt by mst) with sigma = 0, whatever
\* the normal draws, dist_noisy(other, 0) equals _dist(other) for every
\* pair of nodes, and once the distances are measured every edge's dist is
\* the _dist of its two endpoints
C18_NoiselessExact ==
    (pc # "start" /\ args.sigma = 0) =>
        /\ \A i, j \in 1..Len(nodes) : \A z \in ZSamples :
              Point_dist_noisy(nodes[i], AsArg(nodes[j]), 0, z)
                  = Point__dist(nodes[i], AsArg(nodes[j]))
        /\ Measured =>
              \A i \in 1..Len(nodes) : \A u \in DOMAIN nodes[i].edges.val :
                  LET e == nodes[i].edges.val[u]
                  IN  /\ "dist" \in DOMAIN e.props
                      /\ e.props.dist
                            = Point__dist(nodes[i], AsArg(nodes[e.attrs._dest])).val

\* C18 witness: a network of three nodes was built with sigma = 0 while
\* the random module delivered non-zero draws, and an edge between two
\* nodes at different places was measured
C18_Witness ==
    /\ pc = "built"
    /\ args.sigma = 0
    /\ Len(nodes) = 3
    /\ \A k \in 1..Len(rng.stream) : rng.stream[k] # 0
    /\ \E u \in DOMAIN nodes[1].edges.val : nodes[1].edges.val[u].props.dist > 0

\* every node has been through handle_messages in the current round: solve
\* is at a finalize hook, at its return statement or has returned
PhaseBDone ==
    \/ pc = "returned"
    \/ /\ pc = "solve"
       /\ \/ cur.loop = 0
          \/ /\ cur.loop > 0
             /\ Phase(Hooks(args.algorithm, cur.round)[cur.loop]) = 3

\* C19: in a run of admm or admmh, every pair waiting in a mailbox is
\* tagged with a uid that is a key of the receiver's edge map and no
\* handle call fails on its key; when the handle_messages loop of a round
\* (round 0 included) has completed, for every edge i->j the reverse edge
\* j->i exists and m1r, m2r of i->j are the m1s, m2s node j stored on j->i
\* in that round
C19_ReceivedIsSent ==
    /\ \A j \in 1..Len(nodes) : \A n \in 1..Len(nodes[j].message_queue) :
          nodes[j].message_queue[n][2] \in DOMAIN nodes[j].edges.val
    /\ pc = "raised" => ret.val # "KeyError"
    /\ PhaseBDone =>
          \A i \in 1..Len(nodes) : \A u \in DOMAIN nodes[i].edges.val :
              LET e == nodes[i].edges.val[u]
                  j == e.attrs._dest
              IN  /\ nodes[i].uid \in DOMAIN nodes[j].edges.val
                  /\ {"m1r", "m2r"} \subseteq DOMAIN e.props
                  /\ {"m1s", "m2s"} \subseteq DOMAIN nodes[j].edges.val[nodes[i].uid].props
                  /\ e.props.m1r.v = nodes[j].edges.val[nodes[i].uid].props.m1s.v
                  /\ e.props.m2r.v = nodes[j].edges.val[nodes[i].uid].props.m2s.v

\* C19 witness: the handle_messages loop of round 1 has completed on three
\* nodes, and the first node holds a received value that differs from the
\* one it sent on the same edge
C19_Witness ==
    /\ pc = "solve"
    /\ cur = [round |-> 1, loop |-> Len(Hooks(args.algorithm, 1)), idx |-> 1]
    /\ Len(nodes) = 3
    /\ \E u \in DOMAIN nodes[1].edges.val :
          nodes[1].edges.val[u].props.m1r.v # nodes[1].edges.val[u].props.m1s.v

\* C20: a run of admm or admmh on a connected network of at least two
\* nodes, for every number of iterations, does not stop on a read of an
\* edge property that was never set (ValueError)
C20_NoUnsetRead ==
    Len(nodes) >= 2 => ~(pc = "raised" /\ ret.val = "ValueError")

\* C20 witness: an admm run of two iterations on three nodes, an agent
\* among them, has returned, and every property the hooks read is set on
\* the first node's edges
C20_Witness ==
    /\ pc = "returned"
    /\ args.algorithm = "admm"
    /\ args.iterations = 2
    /\ Len(nodes) = 3
    /\ \E i \in 1..Len(nodes) : nodes[i].typ = "A"
    /\ \A u \in DOMAIN nodes[1].edges.val :
          {"dist", "x", "lam1", "lam2", "m1s", "m2s", "m1r", "m2r", "z1", "z2", "y"}
              \subseteq DOMAIN nodes[1].edges.val[u].props

\* solve is about to call the finalize hook of a steady-state round of
\* admmh on node cur.idx, and the call returns
HybridFinalize ==
    /\ pc = "solve" /\ pc' = "solve"
    /\ args.algorithm = "admmh"
    /\ cur.round > 0 /\ cur.loop > 0
    /\ Hooks(args.algorithm, cur.round)[cur.loop] = "iteration_end"

\* the largest penalty parameter node i knows: its own c or a c stored on
\* one of its edges
KnownCmax(i) ==
    Max(nodes[i].inst.c,
        MaxSeq([n \in 1..Len(nodes[i].edges.keys) |->
                   DictValues(nodes[i].edges)[n].props.c]))

\* the finalize hook left c of node i as `c` and sent it to every
\* neighbour, once
BroadcastC(i, c) ==
    /\ nodes'[i].inst.c = c
    /\ \A j \in 1..Len(nodes) : j # i =>
          Appended(j) = IF nodes[j].uid \in DOMAIN nodes[i].edges.val
                        THEN <<(<<(<<3, c>>), nodes[i].uid>>)>> ELSE <<>>

\* the finalize hook of a still unswitched node i switches it exactly when
\* Test holds of the round's gap; on switching c becomes ZETA_C and is
\* broadcast, otherwise c stays and nothing is sent
SwitchRule(i, Test(_)) ==
    LET gap == nodes'[i].inst.prev_primal_gap
    IN  /\ nodes'[i].inst.switched <=> (Test(gap) \/ KnownCmax(i) > EPS_C)
        /\ IF nodes'[i].inst.switched THEN BroadcastC(i, ZETA_C)
           ELSE /\ nodes'[i].inst.c = nodes[i].inst.c
                /\ \A j \in 1..Len(nodes) : j # i => Appended(j) = <<>>

\* C21 as stated: in the finalize hook of a steady-state round an
\* unswitched Hybrid node switches iff the round's primal gap is below
\* TAU_C or the largest c it knows exceeds EPS_C; on switching it sets c
\* to ZETA_C and broadcasts it
C21_SwitchBelowTau ==
    [][(HybridFinalize /\ ~nodes[cur.idx].inst.switched) =>
          SwitchRule(cur.idx, LAMBDA g : g < TAU_C)]_vars

\* C21 amended: the node switches iff the gap is positive and below TAU_C,
\* or the largest c it knows exceeds EPS_C; a gap of exactly zero does not
\* switch it
C21_SwitchBelowTauPositive ==
    [][(HybridFinalize /\ ~nodes[cur.idx].inst.switched) =>
          SwitchRule(cur.idx, LAMBDA g : 0 < g /\ g < TAU_C)]_vars

\* C21 witness: the finalize hook of a steady-state round has run on the
\* first two of three nodes: the first stayed unswitched with a gap of
\* zero, the second switched
C21_Witness ==
    /\ pc = "solve" /\ args.algorithm = "admmh"
    /\ cur.round > 0 /\ cur.loop = 3 /\ cur.idx = 3
    /\ Len(nodes) = 3
    /\ ~nodes[1].inst.switched /\ nodes[1].inst.prev_primal_gap = 0
    /\ nodes[2].inst.switched /\ nodes[2].inst.c = ZETA_C

\* the finalize hook of a switched node i compares the round's gap with
\* THETA_C times the previous one: when smaller c becomes `base`, otherwise
\* base times DELTA_C; the result is broadcast and is not below the old c
AdaptRule(i, base) ==
    LET gap  == nodes'[i].inst.prev_primal_gap
        prev == nodes[i].inst.prev_primal_gap
        c    == IF gap < FxMul(prev, THETA_C) THEN base ELSE FxMul(base, DELTA_C)
    IN  /\ nodes'[i].inst.switched
        /\ BroadcastC(i, c)
        /\ nodes'[i].inst.c >= nodes[i].inst.c

\* C22 as stated: the finalize hook of a switched Hybrid node leaves c at
\* its previous value when the gap is below THETA_C times the previous
\* gap and multiplies it by DELTA_C otherwise; the result is broadcast and
\* c never decreases
C22_HoldOrGrowOwn ==
    [][(HybridFinalize /\ nodes[cur.idx].inst.switched) =>
          AdaptRule(cur.idx, nodes[cur.idx].inst.c)]_vars

\* C22 amended: the hook starts from the largest c the node knows (its own
\* or one a neighbour sent): c becomes that value when the gap is below
\* THETA_C times the previous gap and that value times DELTA_C otherwise;
\* the result is broadcast and c never decreases
C22_HoldOrGrowCmax ==
    [][(HybridFinalize /\ nodes[cur.idx].inst.switched) =>
          AdaptRule(cur.idx, KnownCmax(cur.idx))]_vars

\* C22 witness: in round 3 the finalize hook has run on the first node,
\* switched since round 1, whose c has grown twice by DELTA_C and lies as
\* the last message in the mailbox of the second node
C22_Witness ==
    /\ pc = "solve" /\ args.algorithm = "admmh"
    /\ cur.round = 3 /\ cur.loop = 3 /\ cur.idx = 2
    /\ nodes[1].inst.switched
    /\ nodes[1].inst.c = FxMul(FxMul(ZETA_C, DELTA_C), DELTA_C)
    /\ nodes[1].inst.c > ZETA_C
    /\ Len(nodes[2].message_queue) > 0
    /\ nodes[2].message_queue[Len(nodes[2].message_queue)]
          = <<(<<3, nodes[1].inst.c>>), nodes[1].uid>>

\* the nodes within d hops of the set S in the graph R
RECURSIVE Ball(_, _, _)
Ball(R, S, d) ==
    IF d = 0 THEN S
    ELSE Ball(R, S \cup {r[2] : r \in {q \in R : q[1] \in S}}, d - 1)

\* the hop distance from i to j, for j reachable from i
HopDist(R, i, j) ==
    CHOOSE d \in 0..MaxNodes :
        /\ j \in Ball(R, {i}, d)
        /\ \A e \in 0..(d - 1) : j \notin Ball(R, {i}, e)

\* node i of a Hybrid run is switched while round t is under way
SwitchedInRound(i, t) ==
    /\ pc = "solve" /\ args.algorithm = "admmh"
    /\ i <= Len(nodes)
    /\ cur.round = t /\ cur.loop > 0
    /\ nodes[i].inst.switched

\* the finalize hook of round t has run on node j
FinalizeDone(j, t) ==
    /\ pc \in {"solve", "returned"}
    /\ \/ cur.round > t
       \/ cur.round = t /\ (cur.loop = 0 \/ (cur.loop = 3 /\ cur.idx > j))

\* C23: a node i found switched in round t >= 1 of a Hybrid run makes every
\* node j at hop distance d switched once the finalize hook of round t + d
\* has run on j; with d = 1, an unswitched neighbour of a node that
\* switched in round t switches in the finalize hook of round t + 1
C23_SwitchSpreads ==
    \A i \in 1..MaxNodes, j \in 1..MaxNodes, t \in 1..HybridRounds :
        [](SwitchedInRound(i, t) =>
             []((/\ j <= Len(nodes)
                 /\ j \in ReachSet(EdgeGraph(nodes), {i})
                 /\ FinalizeDone(j, t + HopDist(EdgeGraph(nodes), i, j)))
                => nodes[j].inst.switched))

\* C23 witness: a run of three rounds on a path of three nodes has ended;
\* the third node switched in round 3 only (the second never got a c from
\* it), after the second, its only neighbour, had sent it a c above EPS_C
C23_Witness ==
    /\ pc = "solve" /\ args.algorithm = "admmh"
    /\ cur.round = 3 /\ cur.loop = 0
    /\ Len(nodes) = 3
    /\ DOMAIN nodes[3].edges.val = {nodes[2].uid}
    /\ nodes[3].inst.switched
    /\ nodes[3].edges.val[nodes[2].uid].props.c > EPS_C
    /\ nodes[2].edges.val[nodes[3].uid].props.c = EPS_C
    /\ nodes[1].inst.switched /\ nodes[2].inst.switched

\* the hook solve is about to call
CurHook == Hooks(args.algorithm, cur.round)[cur.loop]

\* a hook call of solve outside Phase A that returns
LaterPhaseCall ==
    /\ pc = "solve" /\ pc' = "solve"
    /\ cur.loop > 0
    /\ Phase(CurHook) # 1

\* the step is the handle_messages call on the last node of a round
PhaseBCompletes ==
    /\ pc = "solve" /\ pc' = "solve"
    /\ cur.loop > 0
    /\ CurHook = "handle_messages"
    /\ cur.idx = Len(nodes)

\* C24 as stated: in admm and admmh no hook outside Phase A enqueues a
\* message, and every mailbox is empty from the end of Phase B to the next
\* Phase A and when solve returns
C24_SendOnlyInPhaseA ==
    [][/\ LaterPhaseCall => \A j \in 1..Len(nodes) : Appended(j) = <<>>
       /\ PhaseBDone' => \A j \in 1..Len(nodes) : nodes'[j].message_queue = <<>>]_vars

\* C24 amended: outside Phase A the only messages enqueued are the (3, c)
\* messages a switched Hybrid node sends to its neighbours in the finalize
\* hook of a steady-state round; every mailbox is empty when Phase B
\* completes; from then to the next Phase A and when solve returns an admm
\* mailbox is empty and an admmh mailbox holds (3, c) messages only
C24_SendInPhaseAOrAdapt ==
    [][/\ LaterPhaseCall =>
             \A j \in 1..Len(nodes) :
                 Appended(j) =
                     IF /\ args.algorithm = "admmh" /\ CurHook = "iteration_end"
                        /\ cur.round > 0 /\ nodes'[cur.idx].inst.switched
                        /\ nodes[j].uid \in DOMAIN nodes[cur.idx].edges.val
                     THEN <<(<<(<<3, nodes'[cur.idx].inst.c>>), nodes[cur.idx].uid>>)>>
                     ELSE <<>>
       /\ PhaseBCompletes => \A j \in 1..Len(nodes) : nodes'[j].message_queue = <<>>
       /\ PhaseBDone' =>
             \A j \in 1..Len(nodes) :
                 /\ args.algorithm = "admm" => nodes'[j].message_queue = <<>>
                 /\ \A q \in 1..Len(nodes'[j].message_queue) :
                       nodes'[j].message_queue[q][1][1] = 3]_vars

\* C24 witness: an admmh run has returned after its last Phase B emptied
\* the mailboxes, and a mailbox holds a (3, c) message of the last
\* finalize hook, never delivered
C24_Witness ==
    /\ pc = "returned" /\ args.algorithm = "admmh"
    /\ \E j \in 1..Len(nodes) :
          /\ Len(nodes[j].message_queue) > 0
          /\ \A q \in 1..Len(nodes[j].message_queue) :
                nodes[j].message_queue[q][1][1] = 3

\* lam1 and lam2 of the edge of node i to u after one dual update in the
\* finalize hook of a steady-state round: the old duals plus c times the
\* residuals, the new z taken; admmh clamps the sum to [-LAMMAX, LAMMAX]
DualUpdate(i, u) ==
    LET e  == nodes[i].edges.val[u].props
        e2 == nodes'[i].edges.val[u].props
        x  == nodes[i].inst.x.v
        c  == nodes[i].inst.c
    IN  IF args.algorithm = "admmh"
        THEN <<Clamp(-LAMMAX, LAMMAX,
                     VAdd(e.lam1.v, VScale(Penalty(c), VSub(VSub(x, e.x.v), e2.z1.v)))),
               Clamp(-LAMMAX, LAMMAX,
                     VAdd(e.lam2.v, VScale(Penalty(c), VSub(VAdd(x, e.x.v), e2.z2.v))))>>
        ELSE <<VAdd(e.lam1.v,
                    VScale(c, VSub(VScale(SQRTEPS, VSub(x, e.x.v)), e2.z1.v))),
               VAdd(e.lam2.v,
                    VScale(c, VSub(VScale(SQRTZETA, VAdd(x, e.x.v)), e2.z2.v)))>>

\* C25: a hook call of round 0 (admm and admmh) leaves every dual that is
\* set at zero, and in admmh leaves c at EPS_C, the node unswitched,
\* prev_primal_gap at 0 and no (3, c) message in any mailbox; in a later
\* round the finalize hook of a node makes one dual update on each of its
\* edges, and no other hook call changes a dual
C25_NoDualUpdateInRound0 ==
    [][(pc = "solve" /\ pc' = "solve" /\ cur.loop > 0) =>
          \A i \in 1..Len(nodes) :
              /\ \A u \in DOMAIN nodes[i].edges.val :
                    LET e  == nodes[i].edges.val[u].props
                        e2 == nodes'[i].edges.val[u].props
                    IN  IF cur.round = 0
                        THEN /\ "lam1" \in DOMAIN e2 => e2.lam1.v = Zeros(nodes[i].dim)
                             /\ "lam2" \in DOMAIN e2 => e2.lam2.v = Zeros(nodes[i].dim)
                        ELSE IF Phase(CurHook) = 3 /\ i = cur.idx
                        THEN <<e2.lam1.v, e2.lam2.v>> = DualUpdate(i, u)
                        ELSE e2.lam1 = e.lam1 /\ e2.lam2 = e.lam2
              /\ (cur.round = 0 /\ args.algorithm = "admmh") =>
                    /\ nodes'[i].inst.c = EPS_C
                    /\ ~nodes'[i].inst.switched
                    /\ nodes'[i].inst.prev_primal_gap = 0
                    /\ \A q \in 1..Len(nodes'[i].message_queue) :
                          nodes'[i].message_queue[q][1][1] # 3]_vars

\* C25 witness: round 0 of an admm run on nodes that are apart is over:
\* some edge has a z1 that is not zero, and all its duals are still zero
C25_Witness ==
    /\ pc = "solve" /\ args.algorithm = "admm"
    /\ cur = [round |-> 1, loop |-> 1, idx |-> 1]
    /\ \E i \in 1..Len(nodes) : \E u \in DOMAIN nodes[i].edges.val :
          LET e == nodes[i].edges.val[u].props
          IN  /\ e.z1.v # Zeros(nodes[i].dim)
              /\ e.lam1.v = Zeros(nodes[i].dim)
              /\ e.lam2.v = Zeros(nodes[i].dim)

\* every component of lam1 and lam2 of every edge of node i lies in
\* [-LAMMAX, LAMMAX]
DualsInRange(i) ==
    \A u \in DOMAIN nodes[i].edges.val :
        \A m \in {nodes[i].edges.val[u].props.lam1.v, nodes[i].edges.val[u].props.lam2.v} :
            \A k \in DOMAIN m : -LAMMAX <= m[k] /\ m[k] <= LAMMAX

\* C26 as stated: in admm and admmh, after every finalize hook every
\* component of lam1 and lam2 lies in [-LAMMAX, LAMMAX]
C26_DualsClamped ==
    pc = "dual" => \A i \in 1..Len(nodes) : DualsInRange(i)

\* C26 amended: in admmh, after every finalize hook every component of
\* lam1 and lam2 lies in [-LAMMAX, LAMMAX]; admm does not clamp its duals
C26_HybridDualsClamped ==
    (pc = "dual" /\ args.algorithm = "admmh") =>
        \A i \in 1..Len(nodes) : DualsInRange(i)

\* C26 witness: two finalize hooks of admmh with large residuals have
\* left lam1 at LAMMAX and lam2 at -LAMMAX
C26_Witness ==
    /\ pc = "dual" /\ args.algorithm = "admmh" /\ cur = 2
    /\ nodes[1].edges.val[12].props.lam1.v = <<LAMMAX>>
    /\ nodes[1].edges.val[12].props.lam2.v = <<-LAMMAX>>

\* Phase C of round cur.round is over on every node: solve is at the end
\* of its loops or has returned
PhaseCDone ==
    \/ pc = "returned"
    \/ pc = "solve" /\ cur.loop = 0

\* Phase C of the round before cur.round is over and nothing of
\* cur.round has run yet
RoundBegins ==
    /\ pc = "solve" /\ cur.round > 0 /\ cur.loop = 1 /\ cur.idx = 1

\* the z1 and z2 of the two directed edges of every pair were assigned in
\* round t, the z1 are opposite and the z2 are equal
MidpointsAgree(t) ==
    \A i \in 1..Len(nodes) : \A u \in DOMAIN nodes[i].edges.val :
        LET e == nodes[i].edges.val[u]
            j == e.attrs._dest
            f == nodes[j].edges.val[nodes[i].uid]
        IN  /\ nodes[i].uid \in DOMAIN nodes[j].edges.val
            /\ e.props.z1.id[4] = t /\ e.props.z2.id[4] = t
            /\ e.props.z1.v = [k \in DOMAIN f.props.z1.v |-> -f.props.z1.v[k]]
            /\ e.props.z2.v = f.props.z2.v

\* C27: after Phase C of every round of admm and admmh, round 0 included,
\* z1 on the edge i -> j is the negation of z1 on j -> i and z2 on i -> j
\* equals z2 on j -> i, both computed in that round
C27_MidpointsAgree ==
    /\ PhaseCDone => MidpointsAgree(cur.round)
    /\ RoundBegins => MidpointsAgree(cur.round - 1)

\* C27 witness: an admm run of two rounds on three nodes has returned and
\* an edge has a z1 and a z2 that are not zero
C27_Witness ==
    /\ pc = "returned" /\ args.algorithm = "admm" /\ cur.round = 2
    /\ Len(nodes) = 3
    /\ \E i \in 1..Len(nodes) : \E u \in DOMAIN nodes[i].edges.val :
          /\ nodes[i].edges.val[u].props.z1.v # Zeros(nodes[i].dim)
          /\ nodes[i].edges.val[u].props.z2.v # Zeros(nodes[i].dim)

\* _measure_distances is about to measure from node cur.i along its
\* cur.k-th edge
Measuring == pc \in {"measure", "mst_measure"} /\ cur.i <= Len(nodes)

\* the key and the far end of the edge _measure_distances is at
MeasuredKey == nodes[cur.i].edges.keys[cur.k]

MeasuredDest == nodes[cur.i].edges.val[MeasuredKey].attrs._dest

\* dist is set on the edge of node i with key u
HasDist(ns, i, u) == NetworkEdge_getattr(ns[i].edges.val[u], "dist").kind # "raise"

\* C28 as stated: a step of a measurement pass measures a pair neither of
\* whose directed edges has a dist yet in the pass, so every pair is
\* measured once and no dist is overwritten
C28_MeasuredOnce ==
    [][Measuring =>
          /\ ~HasDist(nodes, cur.i, MeasuredKey)
          /\ ~HasDist(nodes, MeasuredDest, nodes[cur.i].uid)]_vars

\* C28 amended: every step of a measurement pass draws one noise sample
\* and writes the one noisy distance, measured from node cur.i, to both
\* directed edges of the pair and to no other edge; a pair is visited from
\* both ends, first from the node earlier in the input, when neither edge
\* has a dist, and again from the later node, when both have one, which
\* the second measurement overwrites
C28_MeasuredFromBothSides ==
    [][Measuring =>
          LET i == cur.i
              j == MeasuredDest
              d == Point_dist_noisy(nodes[i], AsArg(nodes[j]), args.sigma,
                                    NextZ(rng)).val
          IN  /\ rng' = Advance(rng)
              /\ HasDist(nodes', i, MeasuredKey)
              /\ HasDist(nodes', j, nodes[i].uid)
              /\ NetworkEdge_getattr(nodes'[i].edges.val[MeasuredKey], "dist").val = d
              /\ NetworkEdge_getattr(nodes'[j].edges.val[nodes[i].uid], "dist").val = d
              /\ \A n \in 1..Len(nodes) : \A u \in DOMAIN nodes[n].edges.val :
                    <<n, u>> \notin {<<i, MeasuredKey>>, <<j, nodes[i].uid>>} =>
                        nodes'[n].edges.val[u] = nodes[n].edges.val[u]
              /\ HasDist(nodes, i, MeasuredKey) <=> j < i
              /\ HasDist(nodes, j, nodes[i].uid) <=> j < i]_vars

\* C28 witness: the pass of the constructor over two nodes with noise has
\* drawn two samples; both edges hold the distance measured from the
\* second node with the second sample, not the first measurement
C28_Witness ==
    /\ pc = "check" /\ Len(nodes) = 2 /\ args.sigma > 0
    /\ DOMAIN nodes[1].edges.val = {nodes[2].uid}
    /\ LET first  == Point_dist_noisy(nodes[1], AsArg(nodes[2]), args.sigma,
                                      rng.stream[1]).val
           second == Point_dist_noisy(nodes[2], AsArg(nodes[1]), args.sigma,
                                      rng.stream[2]).val
       IN  /\ first # second
           /\ NetworkEdge_getattr(nodes[1].edges.val[nodes[2].uid], "dist").val = second
           /\ NetworkEdge_getattr(nodes[2].edges.val[nodes[1].uid], "dist").val = second

\* the connected pairs of a network, each once
Pairs(ns) == {h \in EdgeGraph(ns) : h[1] < h[2]}

\* the spanning trees of a network: the sets of n - 1 of its pairs that
\* connect all nodes
SpanningTrees(ns) ==
    {T \in SUBSET Pairs(ns) :
        /\ Cardinality(T) = Len(ns) - 1
        /\ ReachSet(T \cup {<<h[2], h[1]>> : h \in T}, {1}) = 1..Len(ns)}

RECURSIVE TreeWeight(_, _)
\* the total edge_weight of the pairs T on the edges of ns
TreeWeight(ns, T) ==
    IF T = {} THEN 0
    ELSE LET h == CHOOSE h \in T : TRUE
         IN  EdgeWeight(EdgeAt(ns, h)) + TreeWeight(ns, T \ {h})

\* C29: after mst() on a connected network the pairs kept are a spanning
\* tree of the network as it was, and no spanning tree of it has a smaller
\* total weight, the weights being the dist of the edges when mst() was
\* called
C29_MstMinimal ==
    (ret.op = "mst"
        /\ ReachSet(EdgeGraph(ret.before), {1}) = 1..Len(nodes)) =>
        /\ ~ret.raised
        /\ Pairs(nodes) \in SpanningTrees(ret.before)
        /\ \A T \in SpanningTrees(ret.before) :
              TreeWeight(ret.before, Pairs(nodes)) <= TreeWeight(ret.before, T)

\* C29 witness: mst() has completed on three nodes that all saw each
\* other; of the three spanning trees one is heavier than the tree kept
\* and another one is as light as it
C29_Witness ==
    /\ pc = "mst_done" /\ ~ret.raised
    /\ Len(nodes) = 3
    /\ Cardinality(SpanningTrees(ret.before)) = 3
    /\ \E T \in SpanningTrees(ret.before) :
          TreeWeight(ret.before, T) > TreeWeight(ret.before, Pairs(nodes))
    /\ \E T \in SpanningTrees(ret.before) :
          /\ T # Pairs(nodes)
          /\ TreeWeight(ret.before, T) = TreeWeight(ret.before, Pairs(nodes))

\* C30: once the constructor has built the edges, and after every mst(),
\* the order of each node lists every key of its edge map exactly once and
\* nothing else, so edges_ordered() finds every key and yields each edge
\* the node owns once
C30_OrderIsPermutation ==
    pc \in {"measure", "check", "built", "raised", "mst_measure", "mst_done",
            "mst_raised"} =>
        \A i \in 1..Len(nodes) :
            LET o  == nodes[i].order
                ks == DOMAIN nodes[i].edges.val
            IN  /\ \A n \in 1..Len(o) : o[n] \in ks
                /\ \A u \in ks : Cardinality({n \in 1..Len(o) : o[n] = u}) = 1
                /\ \A n \in 1..Len(o) :
                      NetworkNode_edges_ordered(nodes[i])[n].attrs._source = i

\* C30 witness: mst() has completed and a node that owned two edges owns
\* one, which its order lists
C30_Witness ==
    /\ pc = "mst_done" /\ ~ret.raised
    /\ \E i \in 1..Len(nodes) :
          /\ Len(ret.before[i].order) = 2
          /\ Len(nodes[i].order) = 1
          /\ DOMAIN nodes[i].edges.val = {nodes[i].order[1]}

\* the names of the properties a protocol has set on an edge: all but
\* those of the constructor and the measured dist
ProtocolProps(e) == DOMAIN e.props \ {"typ", "pt", "dist"}

\* C31: after mst() every edge kept is a fresh one: its bag holds typ, pt
\* exactly when the far end is an anchor, and, once the distances are
\* measured again, dist, and no property a protocol had set before the
\* call; both directions of every pair kept exist, the pairs kept are
\* those mst() took, and every other edge is gone from both ends
C31_MstEdgesFresh ==
    (ret.op = "mst" /\ ~ret.raised) =>
        /\ \A i \in 1..Len(nodes) : \A u \in DOMAIN nodes[i].edges.val :
              LET e == nodes[i].edges.val[u]
                  j == e.attrs._dest
              IN  /\ ProtocolProps(e) = {}
                  /\ e.attrs._source = i /\ nodes[j].uid = u
                  /\ e.props.typ = nodes[j].typ
                  /\ "pt" \in DOMAIN e.props <=> nodes[j].typ = "S"
                  /\ "pt" \in DOMAIN e.props => e.props.pt = j
                  /\ pc = "mst_done" => HasDist(nodes, i, u)
                  /\ nodes[i].uid \in DOMAIN nodes[j].edges.val
        /\ EdgeGraph(nodes) =
              {<<ret.taken_edges[n][1], ret.taken_edges[n][2]>> :
                  n \in 1..Len(ret.taken_edges)}
              \cup {<<ret.taken_edges[n][2], ret.taken_edges[n][1]>> :
                        n \in 1..Len(ret.taken_edges)}

\* C31 witness: mst() has completed on three nodes that all saw each other
\* and whose edges all carried duals and a penalty parameter; four edges
\* are left, with none of these and with a dist
C31_Witness ==
    /\ pc = "mst_done" /\ ret.op = "mst" /\ ~ret.raised
    /\ Len(nodes) = 3
    /\ EdgeCount(ret.before) = 6 /\ EdgeCount(nodes) = 4
    /\ \A i \in 1..3 : \A u \in DOMAIN ret.before[i].edges.val :
          {"lam1", "lam2", "x", "c"} \subseteq ProtocolProps(ret.before[i].edges.val[u])
    /\ \A i \in 1..3 : \A u \in DOMAIN nodes[i].edges.val :
          DOMAIN nodes[i].edges.val[u].props \subseteq {"typ", "pt", "dist"}

\* C32: mst() called on a network whose graph is disconnected (built
\* without the connectivity check) ends by raising an error, and every
\* node, with its edge map, its order and the distances measured, is as it
\* was before the call
C32_MstDisconnectedRaises ==
    (ret.op = "mst"
        /\ ReachSet(EdgeGraph(ret.before), {1}) # 1..Len(ret.before)) =>
        /\ pc = "mst_raised"
        /\ ret.raised
        /\ nodes = ret.before
        /\ \A i \in 1..Len(nodes) :
              /\ nodes[i].order = ret.before[i].order
              /\ nodes[i].edges = ret.before[i].edges

\* C32 witness: mst() has raised on three nodes of which the first sees
\* the second and neither sees the third; the two edges measured are
\* still there
C32_Witness ==
    /\ pc = "mst_raised" /\ ret.op = "mst" /\ ret.raised
    /\ Len(nodes) = 3
    /\ EdgeGraph(nodes) = {<<1, 2>>, <<2, 1>>}
    /\ HasDist(nodes, 1, nodes[2].uid) /\ HasDist(nodes, 2, nodes[1].uid)

\* the step is the initial exchange of the asynchronous solver or one of
\* its update steps, and it completes
AsyncStepDone ==
    /\ pc \in {"start", "update"}
    /\ pc' \in {"choose", "return"}

\* C33: in the asynchronous mode, after the initial exchange and after
\* every step, the node chosen for the update is an agent, no other node's
\* estimate x has changed in the step, every mailbox is empty, and on
\* every edge i -> j of every agent i the estimate stored equals the
\* current x of node j
C33_AsyncViewsCurrent ==
    [][AsyncStepDone =>
          /\ pc = "update" =>
                /\ nodes[cur.chosen].typ = "A"
                /\ \A i \in 1..Len(nodes) :
                      i # cur.chosen => nodes'[i].inst.x = nodes[i].inst.x
          /\ \A i \in 1..Len(nodes') :
                /\ nodes'[i].message_queue = <<>>
                /\ nodes'[i].typ = "A" =>
                      \A u \in DOMAIN nodes'[i].edges.val :
                          LET e == nodes'[i].edges.val[u]
                          IN  /\ "x" \in DOMAIN e.props
                              /\ e.props.x.v = nodes'[e.attrs._dest].inst.x.v]_vars

\* C33 witness: two steps are done on a network with two neighbouring
\* agents; the one updated last has a new estimate, which is the one
\* stored on the edge of the other agent
C33_Witness ==
    /\ pc = "return" /\ cur.iternum = 2
    /\ \E i \in 1..Len(nodes), j \in 1..Len(nodes) :
          /\ i # j /\ nodes[i].typ = "A" /\ nodes[j].typ = "A"
          /\ j = cur.chosen
          /\ nodes[j].inst.x.id = <<nodes[j].uid, 0, "update", 1>>
          /\ nodes[j].uid \in DOMAIN nodes[i].edges.val
          /\ nodes[i].edges.val[nodes[j].uid].props.x.v = nodes[j].inst.x.v
          /\ nodes[i].message_queue = <<>>

\* the derivative of func at x as func itself weighs the edges: x - y plus,
\* for every edge func takes and whose distance is positive,
\* (argn - dist) * (x - ref) / (c * len(edges) * argn)
GradientOfFunc(ns, i, x) ==
    LET self == ns[i]
        es   == DictValues(self.edges)
        term(n) ==
            LET f    == HybridNode_func_edge(ns, self, es[n], x)
                dist == NetworkEdge_getattr(es[n], "dist").val
            IN  IF f.takes /\ f.argn > 0
                THEN VDiv(VScale(f.argn - dist, VSub(x, f.ref)),
                          FxMul(f.c * Len(es), f.argn))
                ELSE Zeros(self.dim)
    IN  VAdd(VSub(x, self.inst.y.v),
             VSum([n \in 1..Len(es) |-> term(n)], self.dim))

\* C34 as stated: at every point where the minimizer evaluates them, func
\* and funcgrad use, for every edge, the same reference point, the same
\* denominator and the same inclusion test (switched, or dist smaller than
\* the current distance), and funcgrad returns the gradient of func
C34_GradMatchesFunc ==
    ret.op = "minimize" =>
        /\ \A u \in DOMAIN nodes[1].edges.val :
              LET e == nodes[1].edges.val[u]
                  f == HybridNode_func_edge(nodes, nodes[1], e, ret.x)
                  g == HybridNode_funcgrad_edge(nodes, nodes[1], e, ret.x)
              IN  /\ f.ref = g.ref
                  /\ f.c = g.c
                  /\ f.takes = g.takes
        /\ ret.funcgrad = GradientOfFunc(nodes, 1, ret.x)

====
